---------------------------- MODULE Spec2Model ----------------------------
(***************************************************************************)
(* A model of the goalert-engine rule evaluation core: the RuleManager     *)
(* (value cache, per-rule workers, hot swap), the rule-local evaluator     *)
(* AlertRule.Evaluate and the alert limiter.                               *)
(*                                                                         *)
(* Time is counted in seconds.  A time.Duration of k seconds is the        *)
(* integer k, a time.Time is the number of seconds since the manager was   *)
(* built.  A Go value of static type `any` is a record with one field      *)
(* naming its dynamic type: [f |-> 15] is float64(15), [i |-> 15] is       *)
(* int(15), [s |-> "0"] is the string "0", [b |-> TRUE] a bool and         *)
(* [nil |-> TRUE] is nil; f32, i32, i64, u and u8 name float32, int32,     *)
(* int64, uint and uint8.  A topic is the sequence of its '/'-separated    *)
(* segments: "s/d1" is <<"s", "d1">>.                                      *)
(***************************************************************************)
EXTENDS Integers, Sequences, FiniteSets, TLC

VARIABLES
    now,             \* the wall clock read by time.Now()
    Rules,           \* RuleManager.Rules
    ruleChans,       \* RuleManager.ruleChans: rule ID -> channel
    chans,           \* every channel made so far: channel -> tokens buffered (0 or 1)
    ctx,             \* RuleManager.ctx: the current cancellation scope
    ctxDone,         \* the cancellation scopes that have been cancelled
    workers,         \* the ruleWorker goroutines started so far
    deviceCache,     \* RuleManager.deviceCache
    lastAlertTimes,  \* RuleManager.lastAlertTimes
    alertCounts,     \* RuleManager.alertCounts
    sink,            \* the InsertAlert calls made so far, in order
    lastMsg,         \* the last message handed to HandleMQTTMessage
    call,            \* the last direct call of a limiter method, with its result
    locks,           \* who holds m.mu, m.alertMu and the rule's mu
    tasks            \* the goroutines followed lock by lock

vars == <<now, Rules, ruleChans, chans, ctx, ctxDone, workers, deviceCache,
          lastAlertTimes, alertCounts, sink, lastMsg, call, locks, tasks>>

\* The goroutines are followed lock by lock only in the specification of
\* the lock discipline; everywhere else a method runs as one step, and
\* locks and tasks stay as they are.
lockVars == <<locks, tasks>>

engineVars == <<Rules, ruleChans, chans, ctx, ctxDone, workers, deviceCache,
                sink, lastMsg, lockVars>>

limiterVars == <<lastAlertTimes, alertCounts>>

-----------------------------------------------------------------------------
(* Program constants.                                                      *)

LevelWarning == 1
LevelError == 2
LevelCritical == 3

Levels == {LevelWarning, LevelError, LevelCritical}

\* NewRuleManager: cacheTTL: 5 * time.Minute, in seconds
cacheTTL == 300

-----------------------------------------------------------------------------
(* Bounds of the model.                                                    *)

\* The clock of the limiter specification stops after this many base
\* cooldowns of the key's level.
MaxBaseSteps == 20
\* markAlertTriggered is called directly at most this often per key.
MaxMarks == 5

\* The clock stops here: under hot swap (Spec) and with a single rule
\* (SpecS1), where it stays within MaxSub seconds of a multiple of the cache
\* TTL.
MaxTime == 1
MaxTimeS1 == 301
MaxSub == 1
\* UpdateRules is called at most this often.
MaxUpdates == 1
\* The sink records at most this many InsertAlert calls.
MaxInserts == 2
\* Under sustained firing the clock moves in steps of this many seconds and
\* stops at the horizon.
SilenceStep == 10
SilenceHorizon == 600

None == [none |-> TRUE]

\* The holders of each lock: of m.mu (the manager lock, which also guards
\* the cache) as pairs <<task, "w">> or <<task, "r">>, of m.alertMu (the
\* limiter) and of AlertRule.mu as tasks.
NoLocks == [mu |-> {}, alertMu |-> {}, ruleMu |-> {}]

Min(a, b) == IF a <= b THEN a ELSE b
Max(a, b) == IF a >= b THEN a ELSE b

-----------------------------------------------------------------------------
(* The alert limiter.                                                      *)

\* fmt.Sprintf("%d_%d", rule.ID, condition.Level): the two integers,
\* separated, so that two keys are equal iff both integers are.
AlertKey(ruleID, level) == <<ruleID, level>>

getBaseCooldown(level) ==
    CASE level = LevelCritical -> 30     \* 30 * time.Second
      [] level = LevelError -> 60        \* 1 * time.Minute
      [] OTHER -> 300                    \* 5 * time.Minute

\* m.alertCounts[alertKey]: a missing key reads as 0 and makes no entry.
CountOf(counts, alertKey) ==
    IF alertKey \in DOMAIN counts THEN counts[alertKey] ELSE 0

\* math.Pow(2, float64(count)) for count >= 0.
Pow2(count) == 2 ^ count

\* A faulty backoff, for comparison: it caps the cooldown at 4 times the base.
getCooldownCap4(alertKey, level) ==
    LET baseCooldown == getBaseCooldown(level)
        expCooldown == baseCooldown * Pow2(CountOf(alertCounts, alertKey))
    IN  Max(baseCooldown, Min(expCooldown, baseCooldown * 4))

\* getCooldown: the base doubled per recorded alert, within [base, 8 * base].
getCooldown(alertKey, level) ==
    LET count == CountOf(alertCounts, alertKey)
        baseCooldown == getBaseCooldown(level)
        maxCooldown == baseCooldown * 8
        expCooldown == baseCooldown * Pow2(count)
        clampedCooldown == Max(baseCooldown, Min(expCooldown, maxCooldown))
    IN  clampedCooldown

\* A faulty answer, for comparison: the cooldown ends one instant early.
shouldTriggerGe(alertKey, level) ==
    LET exists == alertKey \in DOMAIN lastAlertTimes
    IN  \/ ~exists
        \/ now - lastAlertTimes[alertKey] >= getCooldown(alertKey, level)

\* The answer of shouldTriggerAlert.
shouldTrigger(alertKey, level) ==
    LET exists == alertKey \in DOMAIN lastAlertTimes
    IN  \/ ~exists
        \/ now - lastAlertTimes[alertKey] > getCooldown(alertKey, level)

\* A faulty method, for comparison: a positive answer records the time.
shouldTriggerAlertRecording(alertKey, level, ret) ==
    /\ ret = shouldTrigger(alertKey, level)
    /\ lastAlertTimes' = IF ret
                           THEN (alertKey :> now) @@ lastAlertTimes
                           ELSE lastAlertTimes
    /\ UNCHANGED alertCounts

\* A faulty method, for comparison: a refused call restarts the cooldown.
shouldTriggerAlertRestarting(alertKey, level, ret) ==
    /\ ret = shouldTrigger(alertKey, level)
    /\ lastAlertTimes' = IF ret
                           THEN lastAlertTimes
                           ELSE (alertKey :> now) @@ lastAlertTimes
    /\ UNCHANGED alertCounts

\* The method shouldTriggerAlert: its answer and its effect on the limiter.
shouldTriggerAlert(alertKey, level, ret) ==
    /\ ret = shouldTrigger(alertKey, level)
    /\ UNCHANGED <<lastAlertTimes, alertCounts>>

\* A faulty method, for comparison: a pause of exactly 4 times the base
\* resets the count.
markAlertTriggeredResetGe(alertKey, level) ==
    LET exists == alertKey \in DOMAIN lastAlertTimes
        baseCooldown == getBaseCooldown(level)
        reset == exists /\ now - lastAlertTimes[alertKey] >= baseCooldown * 4
        count == IF reset THEN 0 ELSE CountOf(alertCounts, alertKey)
    IN  /\ alertCounts' = (alertKey :> count + 1) @@ alertCounts
        /\ lastAlertTimes' = (alertKey :> now) @@ lastAlertTimes

\* A faulty method, for comparison: it counts the alert but does not record
\* its time.
markAlertTriggeredCountOnly(alertKey, level) ==
    /\ alertCounts' = (alertKey :> CountOf(alertCounts, alertKey) + 1)
                         @@ alertCounts
    /\ UNCHANGED lastAlertTimes

\* The method markAlertTriggered.
markAlertTriggered(alertKey, level) ==
    LET exists == alertKey \in DOMAIN lastAlertTimes
        baseCooldown == getBaseCooldown(level)
        reset == exists /\ now - lastAlertTimes[alertKey] > baseCooldown * 4
        count == IF reset THEN 0 ELSE CountOf(alertCounts, alertKey)
    IN  /\ alertCounts' = (alertKey :> count + 1) @@ alertCounts
        /\ lastAlertTimes' = (alertKey :> now) @@ lastAlertTimes

-----------------------------------------------------------------------------
(* Values, topics and payloads.                                            *)

\* A faulty filter, for comparison: it lets the string "0.0" pass.
isValidValueZeroText(value) ==
    CASE "f" \in DOMAIN value -> value.f # 0
      [] "f32" \in DOMAIN value -> value.f32 # 0
      [] "i" \in DOMAIN value -> value.i # 0
      [] "i32" \in DOMAIN value -> value.i32 # 0
      [] "i64" \in DOMAIN value -> value.i64 # 0
      [] "s" \in DOMAIN value -> value.s \notin {"", "0"}
      [] "nil" \in DOMAIN value -> FALSE
      [] OTHER -> TRUE

\* isValidValue: the type switch over float64, float32, int, int32, int64,
\* string and nil; every other dynamic type takes the default branch.
isValidValue(value) ==
    CASE "f" \in DOMAIN value -> value.f # 0
      [] "f32" \in DOMAIN value -> value.f32 # 0
      [] "i" \in DOMAIN value -> value.i # 0
      [] "i32" \in DOMAIN value -> value.i32 # 0
      [] "i64" \in DOMAIN value -> value.i64 # 0
      [] "s" \in DOMAIN value -> value.s \notin {"", "0", "0.0"}
      [] "nil" \in DOMAIN value -> FALSE
      [] OTHER -> TRUE

\* strings.Split(topic, "/") never returns an empty slice, so the result is
\* always the last segment.
extractAddressFromTopic(topic) ==
    IF Len(topic) = 0 THEN "" ELSE topic[Len(topic)]

\* strconv.ParseFloat on the strings the model uses.
NumericStrings ==
    ("0" :> 0) @@ ("0.0" :> 0) @@ ("12" :> 12) @@ ("15" :> 15)

ParseFloat(str) ==
    IF str \in DOMAIN NumericStrings
      THEN [err |-> FALSE, f |-> NumericStrings[str]]
      ELSE [err |-> TRUE, f |-> 0]

\* A payload is [bad |-> TRUE], bytes that json.Unmarshal rejects, or
\* [obj |-> m], the encoding of the JSON object m (a function from its keys
\* to their decoded values).
BadJSON == [bad |-> TRUE]
Reading(address, value) ==
    [obj |-> [address |-> [s |-> address], value |-> value]]

cacheKey(topic, address) == <<topic, address>>

-----------------------------------------------------------------------------
(* HandleMQTTMessage.                                                      *)

\* A faulty handler, for comparison: it does not compare the topic with the
\* address.
AcceptsNoAddressCheck(topic, payload) ==
    /\ "obj" \in DOMAIN payload
    /\ "address" \in DOMAIN payload.obj
    /\ "s" \in DOMAIN payload.obj.address
    /\ "value" \in DOMAIN payload.obj
    /\ isValidValue(payload.obj.value)

\* A faulty handler, for comparison: it does not filter the value.
AcceptsNoValidityCheck(topic, payload) ==
    /\ "obj" \in DOMAIN payload
    /\ "address" \in DOMAIN payload.obj
    /\ "s" \in DOMAIN payload.obj.address
    /\ "value" \in DOMAIN payload.obj
    /\ extractAddressFromTopic(topic) = payload.obj.address.s

\* The early returns of HandleMQTTMessage: TRUE when none is taken.
Accepts(topic, payload) ==
    /\ "obj" \in DOMAIN payload                       \* json.Unmarshal
    /\ "address" \in DOMAIN payload.obj               \* msg["address"].(string)
    /\ "s" \in DOMAIN payload.obj.address
    /\ "value" \in DOMAIN payload.obj                 \* msg["value"]
    /\ isValidValue(payload.obj.value)
    /\ extractAddressFromTopic(topic) = payload.obj.address.s

\* m.deviceCache[key] = cachedValue{value, now}
CachePut(topic, address, value) ==
    (cacheKey(topic, address) :> [value |-> value, timestamp |-> now])
      @@ deviceCache

\* slices.Contains(rule.Topics, topic)
Contains(seq, x) == \E i \in DOMAIN seq : seq[i] = x

\* A faulty fan-out, for comparison: it signals every rule, whatever its
\* topics.
SignalRulesAll(topic) ==
    [c \in DOMAIN chans |->
        IF \E i \in DOMAIN Rules :
              /\ Rules[i].ID \in DOMAIN ruleChans
              /\ ruleChans[Rules[i].ID] = c
          THEN 1
          ELSE chans[c]]

\* A faulty fan-out, for comparison: it signals the channels made for the
\* rule's position in any rule set, past ones included.
SignalRulesAnyChannel(topic) ==
    [c \in DOMAIN chans |->
        IF \E i \in DOMAIN Rules :
              /\ Contains(Rules[i].Topics, topic)
              /\ c[2] = i
          THEN 1
          ELSE chans[c]]

\* A faulty fan-out, for comparison: an unbuffered channel, whose
\* non-blocking send succeeds only while the worker waits in its select.
SignalRulesUnbuffered(topic) ==
    [c \in DOMAIN chans |->
        IF \E i \in DOMAIN Rules :
              /\ Contains(Rules[i].Topics, topic)
              /\ Rules[i].ID \in DOMAIN ruleChans
              /\ ruleChans[Rules[i].ID] = c
              /\ workers[c].pc = "select"
          THEN 1
          ELSE chans[c]]

\* A faulty fan-out, for comparison: the sends queue up instead of being
\* dropped when a token is buffered.
SignalRulesQueued(topic) ==
    [c \in DOMAIN chans |->
        IF \E i \in DOMAIN Rules :
              /\ Contains(Rules[i].Topics, topic)
              /\ Rules[i].ID \in DOMAIN ruleChans
              /\ ruleChans[Rules[i].ID] = c
          THEN chans[c] + 1
          ELSE chans[c]]

\* "Signal relevant rules": the channels after the non-blocking sends.
SignalRules(topic) ==
    [c \in DOMAIN chans |->
        IF \E i \in DOMAIN Rules :
              /\ Contains(Rules[i].Topics, topic)
              /\ Rules[i].ID \in DOMAIN ruleChans
              /\ ruleChans[Rules[i].ID] = c
          THEN 1             \* sent, or dropped because a token is buffered
          ELSE chans[c]]

\* A faulty handler, for comparison: it writes the cache before it applies
\* the validity filter.
HandleMQTTMessageCachesFirst(topic, payload) ==
    /\ deviceCache' = IF AcceptsNoValidityCheck(topic, payload)
                        THEN CachePut(topic, payload.obj.address.s,
                                      payload.obj.value)
                        ELSE deviceCache
    /\ chans' = IF Accepts(topic, payload) THEN SignalRules(topic) ELSE chans
    /\ UNCHANGED <<now, Rules, ruleChans, ctx, ctxDone, workers,
                   lastAlertTimes, alertCounts, sink, call, lockVars>>

HandleMQTTMessage(topic, payload) ==
    /\ IF Accepts(topic, payload)
         THEN /\ deviceCache' = CachePut(topic, payload.obj.address.s,
                                         payload.obj.value)
              /\ chans' = SignalRules(topic)
         ELSE UNCHANGED <<deviceCache, chans>>
    /\ UNCHANGED <<now, Rules, ruleChans, ctx, ctxDone, workers,
                   lastAlertTimes, alertCounts, sink, call, lockVars>>

\* The broker's callback delivers a message; lastMsg remembers it and the
\* time of the call.
OnMessage(topic, payload) ==
    /\ HandleMQTTMessage(topic, payload)
    /\ lastMsg' = [topic |-> topic, payload |-> payload, at |-> now]

-----------------------------------------------------------------------------
(* AlertRule.Evaluate.                                                     *)

\* convertPayload: every value of the snapshot as a float64, or an error.
ConvertValue(v) ==
    CASE "f" \in DOMAIN v -> [err |-> FALSE, f |-> v.f]
      [] "f32" \in DOMAIN v -> [err |-> FALSE, f |-> v.f32]
      [] "i" \in DOMAIN v -> [err |-> FALSE, f |-> v.i]
      [] "i32" \in DOMAIN v -> [err |-> FALSE, f |-> v.i32]
      [] "i64" \in DOMAIN v -> [err |-> FALSE, f |-> v.i64]
      [] "s" \in DOMAIN v -> ParseFloat(v.s)
      [] OTHER -> [err |-> TRUE, f |-> 0]

\* A faulty conversion, for comparison: it leaves out the values it cannot
\* convert instead of failing.
convertPayloadLenient(payload) ==
    LET good == {k \in DOMAIN payload : ~ConvertValue(payload[k]).err}
    IN  [err |-> FALSE,
         vals |-> [k \in good |-> ConvertValue(payload[k]).f]]

convertPayload(payload) ==
    IF \E k \in DOMAIN payload : ConvertValue(payload[k]).err
      THEN [err |-> TRUE, vals |-> <<>>]
      ELSE [err |-> FALSE,
            vals |-> [k \in DOMAIN payload |-> ConvertValue(payload[k]).f]]

\* A condition's Operator is taken apart by the code, so it is modelled as
\* the sequence of its characters: ">=" is <<">", "=">>.
HasAt(str, sub, i) ==
    /\ i + Len(sub) - 1 <= Len(str)
    /\ \A k \in 1..Len(sub) : str[i + k - 1] = sub[k]

\* strings.Contains(str, sub), sub not empty.
StrContains(str, sub) == \E i \in 1..Len(str) : HasAt(str, sub, i)

\* strings.Split(str, sep), sep not empty: the pieces between the
\* occurrences of sep, found from the left.
RECURSIVE StrSplit(_, _)
StrSplit(str, sep) ==
    IF ~StrContains(str, sep)
      THEN <<str>>
      ELSE LET i == CHOOSE i \in 1..Len(str) :
                       /\ HasAt(str, sep, i)
                       /\ \A j \in 1..(i - 1) : ~HasAt(str, sep, j)
           IN  <<SubSeq(str, 1, i - 1)>>
                 \o StrSplit(SubSeq(str, i + Len(sep), Len(str)), sep)

IsSpace(c) == c \in {" ", "\t", "\n", "\r"}

\* strings.TrimSpace
RECURSIVE TrimSpace(_)
TrimSpace(str) ==
    IF Len(str) = 0 THEN str
    ELSE IF IsSpace(str[1]) THEN TrimSpace(Tail(str))
    ELSE IF IsSpace(str[Len(str)]) THEN TrimSpace(SubSeq(str, 1, Len(str) - 1))
    ELSE str

\* strings.Fields: the maximal runs of non-space characters.
RECURSIVE Fields(_)
Fields(str) ==
    IF Len(str) = 0 THEN <<>>
    ELSE IF IsSpace(str[1]) THEN Fields(Tail(str))
    ELSE LET ends == {i \in 1..Len(str) : IsSpace(str[i])}
             n == IF ends = {} THEN Len(str)
                  ELSE (CHOOSE i \in ends : \A j \in ends : i <= j) - 1
         IN  <<SubSeq(str, 1, n)>> \o Fields(SubSeq(str, n + 1, Len(str)))

Digits ==
    ("0" :> 0) @@ ("1" :> 1) @@ ("2" :> 2) @@ ("3" :> 3) @@ ("4" :> 4) @@
    ("5" :> 5) @@ ("6" :> 6) @@ ("7" :> 7) @@ ("8" :> 8) @@ ("9" :> 9)

RECURSIVE Decimal(_)
Decimal(str) ==
    IF Len(str) = 0 THEN 0
    ELSE 10 * Decimal(SubSeq(str, 1, Len(str) - 1)) + Digits[str[Len(str)]]

\* strconv.ParseFloat(str, 64) on a token of an Operator.  The tokens of the
\* model are unsigned decimal integers, which parse, and words that start
\* with a letter or a comparison sign and are no spelling of infinity or
\* NaN, which do not.
ParseFloatToken(str) ==
    IF Len(str) > 0 /\ \A i \in 1..Len(str) : str[i] \in DOMAIN Digits
      THEN [err |-> FALSE, f |-> Decimal(str)]
      ELSE [err |-> TRUE, f |-> 0]

\* The characters of the device names of the model.
Chars ==
    ("d1" :> <<"d", "1">>) @@ ("d2" :> <<"d", "2">>) @@
    ("D800" :> <<"D", "8", "0", "0">>) @@
    ("D392" :> <<"D", "3", "9", "2">>) @@
    ("D166" :> <<"D", "1", "6", "6">>) @@
    ("MOTOR" :> <<"M", "O", "T", "O", "R">>) @@
    ("HAND" :> <<"H", "A", "N", "D">>)

\* val, exists := values[device], for a device name given by its characters.
Lookup(values, device) ==
    IF \E k \in DOMAIN values : Chars[k] = device
      THEN [exists |-> TRUE,
            val |-> values[CHOOSE k \in DOMAIN values : Chars[k] = device]]
      ELSE [exists |-> FALSE, val |-> 0]

\* The switch over the six comparison operators.
Compare(val, operator, threshold) ==
    CASE operator = <<">">> -> val > threshold
      [] operator = <<"<">> -> val < threshold
      [] operator = <<">", "=">> -> val >= threshold
      [] operator = <<"<", "=">> -> val <= threshold
      [] operator = <<"=", "=">> -> val = threshold
      [] operator = <<"!", "=">> -> val # threshold
      [] OTHER -> FALSE

\* evaluateSingleCondition: one atom "<device> <operator> <threshold>".
evaluateSingleCondition(condition, values) ==
    LET parts == Fields(condition)
    IN  IF Len(parts) # 3 THEN FALSE
        ELSE LET device == Lookup(values, parts[1])
                 number == ParseFloatToken(parts[3])
                 refVal == Lookup(values, parts[3])
             IN  IF ~device.exists THEN FALSE
                 ELSE IF number.err /\ ~refVal.exists THEN FALSE
                 ELSE Compare(device.val, parts[2],
                              IF number.err THEN refVal.val ELSE number.f)

evaluateANDConditions(conditions, values) ==
    \A i \in DOMAIN conditions : evaluateSingleCondition(conditions[i], values)

evaluateORConditions(conditions, values) ==
    \E i \in DOMAIN conditions : evaluateSingleCondition(conditions[i], values)

AND == <<"A", "N", "D">>
OR == <<"O", "R">>

evaluateComplexCondition(operator, values) ==
    LET split == IF StrContains(operator, AND)
                   THEN StrSplit(operator, AND)
                   ELSE StrSplit(operator, OR)
        conditions == [i \in DOMAIN split |-> TrimSpace(split[i])]
    IN  IF StrContains(operator, AND)
          THEN evaluateANDConditions(conditions, values)
          ELSE evaluateORConditions(conditions, values)

checkSimpleCondition(condition, values) ==
    /\ condition.Device \in DOMAIN values
    /\ Compare(values[condition.Device], condition.Operator,
               condition.Threshold)

\* evaluateConditions: whether any condition of the rule holds, each taken
\* in its simple or its compound form.
evaluateConditions(rule, deviceValues) ==
    \E i \in DOMAIN rule.Conditions :
        LET condition == rule.Conditions[i]
        IN  IF \/ StrContains(condition.Operator, AND)
               \/ StrContains(condition.Operator, OR)
              THEN evaluateComplexCondition(condition.Operator, deviceValues)
              ELSE checkSimpleCondition(condition, deviceValues)

\* A faulty test, for comparison: it lets a condition through after half of
\* the cooldown.
shouldAlertHalfway(lat, CooldownPeriod, id) ==
    \/ id \notin DOMAIN lat
    \/ 2 * (now - lat[id]) >= CooldownPeriod

\* shouldAlert(id) on a rule whose LastAlertTime map is lat.
shouldAlert(lat, CooldownPeriod, id) ==
    \/ id \notin DOMAIN lat
    \/ now - lat[id] >= CooldownPeriod

getLevelString(level) ==
    CASE level = LevelCritical -> "CRITICAL"
      [] level = LevelError -> "ERROR"
      [] OTHER -> "WARNING"

\* A faulty message, for comparison: it reports the threshold as the
\* current value.
generateAlertMessageNoCurrent(condition, values) ==
    [device |-> condition.Device,
     current |-> condition.Threshold,
     threshold |-> condition.Threshold,
     severity |-> getLevelString(condition.Level)]

\* generateAlertMessage: the fields of the marshalled AlertMessage.  A
\* device missing from the converted payload reads as 0.
generateAlertMessage(condition, values) ==
    [device |-> condition.Device,
     current |-> IF condition.Device \in DOMAIN values
                   THEN values[condition.Device] ELSE 0,
     threshold |-> condition.Threshold,
     severity |-> getLevelString(condition.Level)]

\* Evaluate(payload, condition) on `rule` with LastAlertTime map lat: the
\* verdict, the message and the map afterwards.
\* A faulty Evaluate, for comparison: a call refused by the rule's cooldown
\* records its time as well.
EvaluateRecordsRefusal(rule, lat, payload, condition) ==
    LET conv == convertPayload(payload)
        no == [triggered |-> FALSE, message |-> None, lat |-> lat]
    IN  IF conv.err THEN no
        ELSE IF ~evaluateConditions(rule, conv.vals) THEN no
        ELSE IF ~shouldAlert(lat, rule.CooldownPeriod, condition.ID)
          THEN [no EXCEPT !.lat = (condition.ID :> now) @@ lat]
        ELSE [triggered |-> TRUE,
              message |-> generateAlertMessage(condition, conv.vals),
              lat |-> (condition.ID :> now) @@ lat]

Evaluate(rule, lat, payload, condition) ==
    LET conv == convertPayload(payload)
        no == [triggered |-> FALSE, message |-> None, lat |-> lat]
    IN  IF conv.err THEN no
        ELSE IF ~evaluateConditions(rule, conv.vals) THEN no
        ELSE IF ~shouldAlert(lat, rule.CooldownPeriod, condition.ID) THEN no
        ELSE [triggered |-> TRUE,
              message |-> generateAlertMessage(condition, conv.vals),
              lat |-> (condition.ID :> now) @@ lat]

-----------------------------------------------------------------------------
(* The rule workers.                                                       *)

\* A worker is named <<g, i>>: the i-th rule of the g-th rule set (0 is the
\* set given to NewRuleManager).  Its channel carries the same name, and the
\* g-th cancellation scope is the one made together with the g-th rule set.
\* Its fields: rule (the AlertRule it points to, LastAlertTime apart), lat
\* (that rule's LastAlertTime), pc, sel (the scope whose Done() channel the
\* select waits on), snapshot, ci (index of the condition in hand) and
\* message (the message of the condition in hand).
NewWorker(rule) ==
    [rule |-> rule, lat |-> <<>>, pc |-> "loop", sel |-> 0,
     snapshot |-> None, ci |-> 0, message |-> None]

\* A faulty test, for comparison: it ignores the age of the entry.
EntryUsableNoTTL(key) ==
    /\ key \in DOMAIN deviceCache
    /\ isValidValue(deviceCache[key].value)

\* A faulty test, for comparison: an entry aged exactly cacheTTL is expired.
EntryUsableGe(key) ==
    /\ key \in DOMAIN deviceCache
    /\ ~(now - deviceCache[key].timestamp >= cacheTTL)
    /\ isValidValue(deviceCache[key].value)

\* The per-topic test of createRuleSnapshot, line 202.
EntryUsable(key) ==
    /\ key \in DOMAIN deviceCache
    /\ ~(now - deviceCache[key].timestamp > cacheTTL)
    /\ isValidValue(deviceCache[key].value)

\* A faulty snapshot, for comparison: it leaves out the topics whose entry
\* is unusable and returns the rest.
createRuleSnapshotPartial(rule) ==
    LET usable == {i \in DOMAIN rule.Topics :
                      /\ <<rule.Topics[i], extractAddressFromTopic(rule.Topics[i])>>
                            \in DOMAIN deviceCache
                      /\ ~(now - deviceCache[<<rule.Topics[i],
                              extractAddressFromTopic(rule.Topics[i])>>].timestamp
                            > cacheTTL)}
    IN  [isnil |-> FALSE,
         vals |-> [a \in {extractAddressFromTopic(rule.Topics[i]) : i \in usable}
                     |-> deviceCache[<<rule.Topics[
                            CHOOSE i \in usable :
                               extractAddressFromTopic(rule.Topics[i]) = a], a>>].value]]

\* A faulty snapshot, for comparison: it does not compare the size of the
\* map with the number of topics.
createRuleSnapshotUncounted(rule) ==
    IF \E i \in DOMAIN rule.Topics :
          ~EntryUsable(<<rule.Topics[i], extractAddressFromTopic(rule.Topics[i])>>)
      THEN [isnil |-> TRUE, vals |-> <<>>]
      ELSE [isnil |-> FALSE,
            vals |-> [a \in {extractAddressFromTopic(rule.Topics[i]) :
                                i \in DOMAIN rule.Topics}
                        |-> deviceCache[<<rule.Topics[
                               CHOOSE i \in DOMAIN rule.Topics :
                                  extractAddressFromTopic(rule.Topics[i]) = a],
                               a>>].value]]

RuleKey(rule, i) ==
    cacheKey(rule.Topics[i], extractAddressFromTopic(rule.Topics[i]))

\* createRuleSnapshot: [isnil |-> TRUE] for nil, else the map.
NilSnapshot == [isnil |-> TRUE, vals |-> <<>>]

createRuleSnapshot(rule) ==
    IF \E i \in DOMAIN rule.Topics : ~EntryUsable(RuleKey(rule, i))
      THEN NilSnapshot
      ELSE LET addrs == {extractAddressFromTopic(rule.Topics[i]) :
                            i \in DOMAIN rule.Topics}
               \* a later topic with the same address overwrites an earlier one
               last(a) == CHOOSE i \in DOMAIN rule.Topics :
                             /\ extractAddressFromTopic(rule.Topics[i]) = a
                             /\ \A j \in DOMAIN rule.Topics :
                                   extractAddressFromTopic(rule.Topics[j]) = a
                                     => j <= i
               snapshot == [a \in addrs |->
                               deviceCache[RuleKey(rule, last(a))].value]
           IN  IF Cardinality(addrs) = Len(rule.Topics)
                 THEN [isnil |-> FALSE, vals |-> snapshot]
                 ELSE NilSnapshot

\* The worker goes on to its next condition, or back to the top of its loop.
Advance(w) ==
    IF w.ci < Len(w.rule.Conditions)
      THEN [w EXCEPT !.pc = "evaluate", !.ci = @ + 1, !.message = None]
      ELSE [w EXCEPT !.pc = "loop", !.ci = 0, !.message = None,
                     !.snapshot = None]

\* ruleWorker reaches its select and evaluates m.ctx.Done(): it reads m.ctx
\* without the lock, and gets the scope current at that moment.
EnterSelect(id) ==
    /\ workers[id].pc = "loop"
    /\ workers' = [workers EXCEPT ![id].pc = "select", ![id].sel = ctx]
    /\ UNCHANGED <<now, Rules, ruleChans, chans, ctx, ctxDone, deviceCache,
                   lastAlertTimes, alertCounts, sink, lastMsg, call, lockVars>>

\* case <-m.ctx.Done(): return
SelectDone(id) ==
    /\ workers[id].pc = "select"
    /\ workers[id].sel \in ctxDone
    /\ workers' = [workers EXCEPT ![id].pc = "done", ![id].sel = 0]
    /\ UNCHANGED <<now, Rules, ruleChans, chans, ctx, ctxDone, deviceCache,
                   lastAlertTimes, alertCounts, sink, lastMsg, call, lockVars>>

\* case <-triggerChan: (a select with both cases ready takes either)
SelectSignal(id) ==
    /\ workers[id].pc = "select"
    /\ chans[id] = 1
    /\ chans' = [chans EXCEPT ![id] = 0]
    /\ workers' = [workers EXCEPT ![id].pc = "snapshot", ![id].sel = 0]
    /\ UNCHANGED <<now, Rules, ruleChans, ctx, ctxDone, deviceCache,
                   lastAlertTimes, alertCounts, sink, lastMsg, call, lockVars>>

\* evaluateRule: snapshot := m.createRuleSnapshot(rule)
TakeSnapshot(id) ==
    /\ workers[id].pc = "snapshot"
    /\ LET w == workers[id]
           snapshot == createRuleSnapshot(w.rule)
       IN  workers' = [workers EXCEPT ![id] =
              IF snapshot.isnil
                THEN [w EXCEPT !.pc = "loop"]
                ELSE Advance([w EXCEPT !.snapshot = snapshot.vals, !.ci = 0])]
    /\ UNCHANGED <<now, Rules, ruleChans, chans, ctx, ctxDone, deviceCache,
                   lastAlertTimes, alertCounts, sink, lastMsg, call, lockVars>>

\* triggered, message := rule.Evaluate(snapshot, condition)
EvaluateCondition(id) ==
    /\ workers[id].pc = "evaluate"
    /\ LET w == workers[id]
           r == Evaluate(w.rule, w.lat, w.snapshot, w.rule.Conditions[w.ci])
       IN  workers' = [workers EXCEPT ![id] =
              IF r.triggered
                THEN [w EXCEPT !.pc = "should", !.message = r.message,
                               !.lat = r.lat]
                ELSE Advance([w EXCEPT !.lat = r.lat])]
    /\ UNCHANGED <<now, Rules, ruleChans, chans, ctx, ctxDone, deviceCache,
                   lastAlertTimes, alertCounts, sink, lastMsg, call, lockVars>>

\* The alert key of the condition in hand.
KeyOf(w) == AlertKey(w.rule.ID, w.rule.Conditions[w.ci].Level)

\* if m.shouldTriggerAlert(alertKey, condition.Level)
CheckLimiter(id) ==
    /\ workers[id].pc = "should"
    /\ LET w == workers[id]
       IN  \E ret \in BOOLEAN :
              /\ shouldTriggerAlert(KeyOf(w), w.rule.Conditions[w.ci].Level,
                                    ret)
              /\ workers' = [workers EXCEPT ![id] =
                    IF ret THEN [w EXCEPT !.pc = "insert"] ELSE Advance(w)]
    /\ UNCHANGED <<now, Rules, ruleChans, chans, ctx, ctxDone, deviceCache,
                   sink, lastMsg, call, lockVars>>

\* A faulty worker, for comparison: after a failed insert it leaves the
\* alert key unmarked.
AfterInsertUnmarked(w, err) ==
    IF err THEN Advance(w) ELSE [w EXCEPT !.pc = "mark"]

\* if err != nil { m.logger.Error(...) }: a failure is only logged, and the
\* worker goes on to m.markAlertTriggered either way.
AfterInsert(w, err) == [w EXCEPT !.pc = "mark"]

\* err := supabase.InsertAlert(cfg, rule.Table, condition.Device, message),
\* with its outcome.  The sink records the call: the alert key it was made
\* for, the time it was made at and whether it failed.
SinkCall(id, err) ==
    /\ workers[id].pc = "insert"
    /\ Len(sink) < MaxInserts
    /\ LET w == workers[id]
       IN  /\ sink' = Append(sink,
                 [table |-> w.rule.Table,
                  device |-> w.rule.Conditions[w.ci].Device,
                  message |-> w.message,
                  key |-> KeyOf(w),
                  at |-> now,
                  err |-> err])
           /\ workers' = [workers EXCEPT ![id] = AfterInsert(w, err)]
    /\ UNCHANGED <<now, Rules, ruleChans, chans, ctx, ctxDone, deviceCache,
                   lastAlertTimes, alertCounts, lastMsg, call, lockVars>>

\* The insert succeeds.
InsertAlert(id) == SinkCall(id, FALSE)

\* The insert fails (the sink is unreachable or answers with an error).
InsertAlertFails(id) == SinkCall(id, TRUE)

\* m.markAlertTriggered(alertKey, condition.Level)
MarkTriggered(id) ==
    /\ workers[id].pc = "mark"
    /\ LET w == workers[id]
       IN  /\ markAlertTriggered(KeyOf(w), w.rule.Conditions[w.ci].Level)
           /\ workers' = [workers EXCEPT ![id] = Advance(w)]
    /\ UNCHANGED <<now, Rules, ruleChans, chans, ctx, ctxDone, deviceCache,
                   sink, lastMsg, call, lockVars>>

WorkerStep(id) ==
    \/ EnterSelect(id)
    \/ SelectDone(id)
    \/ SelectSignal(id)
    \/ TakeSnapshot(id)
    \/ EvaluateCondition(id)
    \/ CheckLimiter(id)
    \/ InsertAlert(id)
    \/ MarkTriggered(id)

-----------------------------------------------------------------------------
(* NewRuleManager, UpdateRules, Shutdown.                                  *)

getMaxLevel(rule) ==
    LET levels == {rule.Conditions[i].Level : i \in DOMAIN rule.Conditions}
    IN  IF \E l \in levels : l > 0
          THEN CHOOSE l \in levels : \A k \in levels : k <= l
          ELSE 0

\* NewRuleManager: "Initialize default cooldown periods if not set".
DefaultCooldown(rule) ==
    IF rule.CooldownPeriod # 0 THEN rule
    ELSE [rule EXCEPT !.CooldownPeriod =
            CASE getMaxLevel(rule) = LevelCritical -> 30
              [] getMaxLevel(rule) = LevelError -> 60
              [] OTHER -> 300]

\* m.ruleChans after `m.ruleChans[r.ID] = ch` for each rule in order: a
\* later rule with the same ID replaces the channel of an earlier one.
RuleChansOf(g, rules) ==
    [id \in {rules[i].ID : i \in DOMAIN rules} |->
        <<g, CHOOSE i \in DOMAIN rules :
                /\ rules[i].ID = id
                /\ \A j \in DOMAIN rules : rules[j].ID = id => j <= i>>]

NewRuleManager(rules) ==
    /\ now = 0
    /\ Rules = [i \in DOMAIN rules |-> DefaultCooldown(rules[i])]
    /\ ruleChans = RuleChansOf(0, rules)
    /\ chans = [c \in {<<0, i>> : i \in DOMAIN rules} |-> 0]
    /\ ctx = 0
    /\ ctxDone = {}
    /\ workers = [c \in {<<0, i>> : i \in DOMAIN rules} |->
                     NewWorker(DefaultCooldown(rules[c[2]]))]
    /\ deviceCache = <<>>
    /\ lastAlertTimes = <<>>
    /\ alertCounts = <<>>
    /\ sink = <<>>
    /\ lastMsg = None
    /\ locks = NoLocks
    /\ tasks = <<>>
    /\ call = None

\* A faulty update, for comparison: "reset everything from scratch" also
\* empties the value cache and the limiter.
UpdateRulesFromScratch(newRules) ==
    /\ ctx < MaxUpdates
    /\ ctxDone' = ctxDone \cup {ctx}
    /\ ctx' = ctx + 1
    /\ Rules' = newRules
    /\ ruleChans' = RuleChansOf(ctx + 1, newRules)
    /\ chans' = [c \in {<<ctx + 1, i>> : i \in DOMAIN newRules} |-> 0] @@ chans
    /\ workers' = [c \in {<<ctx + 1, i>> : i \in DOMAIN newRules} |->
                      NewWorker(newRules[c[2]])] @@ workers
    /\ deviceCache' = <<>>
    /\ lastAlertTimes' = <<>>
    /\ alertCounts' = <<>>
    /\ UNCHANGED <<now, sink, lastMsg, call, lockVars>>

UpdateRules(newRules) ==
    /\ ctx < MaxUpdates
    /\ ctxDone' = ctxDone \cup {ctx}                        \* m.cancel()
    /\ ctx' = ctx + 1                                       \* context.WithCancel
    /\ Rules' = newRules
    /\ ruleChans' = RuleChansOf(ctx + 1, newRules)
    /\ chans' = [c \in {<<ctx + 1, i>> : i \in DOMAIN newRules} |-> 0] @@ chans
    /\ workers' = [c \in {<<ctx + 1, i>> : i \in DOMAIN newRules} |->
                      NewWorker(newRules[c[2]])] @@ workers
    /\ UNCHANGED <<now, deviceCache, lastAlertTimes, alertCounts, sink,
                   lastMsg, call, lockVars>>

Shutdown ==
    /\ ctx \notin ctxDone
    /\ ctxDone' = ctxDone \cup {ctx}
    /\ UNCHANGED <<now, Rules, ruleChans, chans, ctx, workers, deviceCache,
                   lastAlertTimes, alertCounts, sink, lastMsg, call, lockVars>>

-----------------------------------------------------------------------------
(* The engine: rule sets, messages and the passing of time.                *)

T1 == <<"s", "d1">>
T2 == <<"s", "d2">>

Cond(id, device, operator, threshold, level) ==
    [ID |-> id, Device |-> device, Operator |-> operator,
     Threshold |-> threshold, Level |-> level]

\* The rule of scenario S1, as a struct literal (CooldownPeriod unset).
RuleA ==
    [ID |-> 1, Topics |-> <<T1>>, Table |-> "alerts",
     Conditions |-> <<Cond(1, "d1", <<">">>, 10, LevelWarning)>>,
     CooldownPeriod |-> 0]

\* A critical rule on the other topic, as NewAlertRule builds it.
RuleB ==
    [ID |-> 2, Topics |-> <<T2>>, Table |-> "alerts",
     Conditions |-> <<Cond(1, "d2", <<">">>, 10, LevelCritical)>>,
     CooldownPeriod |-> 30]

\* A rule that reuses the ID of RuleA and depends on both topics.
RuleC ==
    [ID |-> 1, Topics |-> <<T1, T2>>, Table |-> "alerts",
     Conditions |-> <<Cond(1, "d1", <<">">>, 10, LevelWarning)>>,
     CooldownPeriod |-> 30]

\* The clock advances by one of `deltas`, up to maxTime, and stays within
\* MaxSub seconds of a multiple of the cache TTL.
Tick(deltas, maxTime) ==
    \E d \in deltas :
        /\ now + d <= maxTime
        /\ (now + d) % cacheTTL <= MaxSub
        /\ now' = now + d
        /\ UNCHANGED <<engineVars, limiterVars, call>>

\* The engine under hot swap: it starts with RuleA; a rule-set update
\* installs RuleC (which reuses RuleA's ID) and RuleB.
RuleSets == {<<RuleC, RuleB>>}

Topics == {T1, T2}

Payloads == {Reading("d1", [f |-> 15]), Reading("d2", [f |-> 15])}

Init == NewRuleManager(<<RuleA>>)

Next ==
    \/ \E topic \in Topics, payload \in Payloads :
          /\ HandleMQTTMessage(topic, payload)
          /\ UNCHANGED lastMsg
    \/ \E id \in DOMAIN workers : WorkerStep(id)
    \/ \E newRules \in RuleSets : UpdateRules(newRules)
    \/ Tick({1}, MaxTime)

Spec == Init /\ [][Next]_vars

\* One rule (RuleA, or RuleC with its two topics) and no rule-set update, as
\* in scenarios S1, S3, S4 and S6: every kind of payload arrives on T1, a
\* valid reading on T2, and the clock runs past the cache TTL.
PayloadsS1 ==
    {Reading("d1", [f |-> 15]),                 \* triggers RuleA
     Reading("d1", [f |-> 5]),                  \* valid, below the threshold
     Reading("d1", [f |-> 0]),                  \* fails the validity filter
     Reading("d2", [f |-> 15]),                 \* address differs from the topic's
     BadJSON,
     [obj |-> [value |-> [f |-> 15]]],          \* no "address"
     [obj |-> [address |-> [f |-> 1], value |-> [f |-> 15]]],  \* not a string
     [obj |-> [address |-> [s |-> "d1"]]]}      \* no "value"

InitS1 == \E rules \in {<<RuleA>>, <<RuleC>>} : NewRuleManager(rules)

NextS1 ==
    \/ \E payload \in PayloadsS1 : OnMessage(T1, payload)
    \/ OnMessage(T2, Reading("d2", [f |-> 15]))
    \/ \E id \in DOMAIN workers : WorkerStep(id)
    \/ Tick({1, cacheTTL - 1, cacheTTL}, MaxTimeS1)

SpecS1 == InitS1 /\ [][NextS1]_vars

\* A rule with two conditions on one device, a warning above 10 and a
\* critical alert above 100, fed readings below, between and above the two
\* thresholds.
RuleD ==
    [ID |-> 3, Topics |-> <<T1>>, Table |-> "alerts",
     Conditions |-> <<Cond(1, "d1", <<">">>, 10, LevelWarning),
                      Cond(2, "d1", <<">">>, 100, LevelCritical)>>,
     CooldownPeriod |-> 30]

InitTwoCond == NewRuleManager(<<RuleD>>)

NextTwoCond ==
    \/ \E v \in {5, 15, 150} :
          /\ HandleMQTTMessage(T1, Reading("d1", [f |-> v]))
          /\ UNCHANGED lastMsg
    \/ \E id \in DOMAIN workers : WorkerStep(id)
    \/ Tick({1}, MaxTime)

SpecTwoCond == InitTwoCond /\ [][NextTwoCond]_vars

\* The sink may fail: RuleD's worker makes its inserts, and each of them
\* succeeds or fails.
NextSinkFailure ==
    \/ \E v \in {15, 150} :
          /\ HandleMQTTMessage(T1, Reading("d1", [f |-> v]))
          /\ UNCHANGED lastMsg
    \/ \E id \in DOMAIN workers : WorkerStep(id)
    \/ \E id \in DOMAIN workers : InsertAlertFails(id)
    \/ Tick({1}, MaxTime)

SpecSinkFailure == InitTwoCond /\ [][NextSinkFailure]_vars

\* RuleD over half a minute: readings arrive at any of the moments below,
\* which lie around the rule's CooldownPeriod of 30 s.
CooldownTimes == {1, 29, 30, 31}

NextCooldown ==
    \/ \E v \in {5, 15} :
          /\ HandleMQTTMessage(T1, Reading("d1", [f |-> v]))
          /\ UNCHANGED lastMsg
    \/ \E id \in DOMAIN workers : WorkerStep(id)
    \/ \E t \in CooldownTimes :
          /\ t > now
          /\ now' = t
          /\ UNCHANGED <<engineVars, limiterVars, call>>

SpecCooldown == InitTwoCond /\ [][NextCooldown]_vars

\* RuleC (d1 > 10, on T1 and T2) fed values of every JSON kind that passes
\* the validity filter: numbers, a numeric string, a non-numeric string and
\* a bool.
ConversionValues == {[f |-> 15], [s |-> "15"], [s |-> "abc"], [b |-> TRUE]}

NextConversion ==
    \/ \E value \in ConversionValues :
          /\ HandleMQTTMessage(T1, Reading("d1", value))
          /\ UNCHANGED lastMsg
    \/ \E value \in ConversionValues :
          /\ HandleMQTTMessage(T2, Reading("d2", value))
          /\ UNCHANGED lastMsg
    \/ \E id \in DOMAIN workers : WorkerStep(id)
    \/ Tick({1}, MaxTime)

InitConversion == NewRuleManager(<<RuleC>>)

SpecConversion == InitConversion /\ [][NextConversion]_vars

\* Sustained firing: RuleB (d2 > 10, critical, CooldownPeriod 30 s) alone,
\* and the reading 15 keeps arriving on its topic, at most MessageInterval
\* seconds after the one before.  Evaluation takes no time: the clock moves
\* only while the worker is blocked in its select, and at most one message
\* arrives per instant.
MessageInterval == 2 * SilenceStep

InitSilence == NewRuleManager(<<RuleB>>)

\* The worker waits in its select: no token, and its scope is not cancelled.
WorkerBlocked(id) ==
    /\ workers[id].pc = "select"
    /\ chans[id] = 0
    /\ workers[id].sel \notin ctxDone

SilenceMessage ==
    /\ \A key \in DOMAIN deviceCache : deviceCache[key].timestamp < now
    /\ HandleMQTTMessage(T2, Reading("d2", [f |-> 15]))
    /\ UNCHANGED lastMsg

\* The time of the latest accepted message (0 before the first).
LastAccepted ==
    IF deviceCache = <<>> THEN 0
    ELSE LET times == {deviceCache[key].timestamp : key \in DOMAIN deviceCache}
         IN  CHOOSE t \in times : \A u \in times : u <= t

SilenceTick ==
    /\ \A id \in DOMAIN workers : WorkerBlocked(id)
    /\ now + SilenceStep <= SilenceHorizon
    /\ now + SilenceStep - LastAccepted <= MessageInterval
    /\ now' = now + SilenceStep
    /\ UNCHANGED <<engineVars, limiterVars, call>>

\* supabase.InsertAlert, observed by a sink that keeps the latest call only.
InsertAlertLatest(id) ==
    /\ workers[id].pc = "insert"
    /\ LET w == workers[id]
       IN  /\ sink' = <<[table |-> w.rule.Table,
                         device |-> w.rule.Conditions[w.ci].Device,
                         message |-> w.message,
                         key |-> KeyOf(w),
                         at |-> now,
                         err |-> FALSE]>>
           /\ workers' = [workers EXCEPT ![id] = AfterInsert(w, FALSE)]
    /\ UNCHANGED <<now, Rules, ruleChans, chans, ctx, ctxDone, deviceCache,
                   lastAlertTimes, alertCounts, lastMsg, call, lockVars>>

SilenceWorkerStep(id) ==
    \/ EnterSelect(id)
    \/ SelectDone(id)
    \/ SelectSignal(id)
    \/ TakeSnapshot(id)
    \/ EvaluateCondition(id)
    \/ CheckLimiter(id)
    \/ InsertAlertLatest(id)
    \/ MarkTriggered(id)

NextSilence ==
    \/ SilenceMessage
    \/ \E id \in DOMAIN workers : SilenceWorkerStep(id)
    \/ SilenceTick

\* The scheduler runs the worker whenever it can take a step, messages keep
\* arriving and time passes.
SpecSilence ==
    /\ InitSilence
    /\ [][NextSilence]_vars
    /\ WF_vars(SilenceWorkerStep(<<0, 1>>))
    /\ WF_vars(SilenceMessage)
    /\ WF_vars(SilenceTick)

\* Sustained firing with a slow sink: as above, but supabase.InsertAlert is a
\* blocking network call, and the clock also moves while the worker is
\* inside it.
SlowSinkTick ==
    /\ \A id \in DOMAIN workers :
          WorkerBlocked(id) \/ workers[id].pc = "insert"
    /\ now + SilenceStep <= SilenceHorizon
    /\ now + SilenceStep - LastAccepted <= MessageInterval
    /\ now' = now + SilenceStep
    /\ UNCHANGED <<engineVars, limiterVars, call>>

NextSlowSink ==
    \/ SilenceMessage
    \/ \E id \in DOMAIN workers : SilenceWorkerStep(id)
    \/ SlowSinkTick

SpecSlowSink == InitSilence /\ [][NextSlowSink]_vars

\* One evaluation pass of a rule with two critical conditions and an error
\* condition on one device: a single reading arrives, above all three
\* thresholds.  Computation takes at most a second; supabase.InsertAlert is
\* a blocking network call and may take a minute or more.
RuleE ==
    [ID |-> 6, Topics |-> <<T2>>, Table |-> "alerts",
     Conditions |-> <<Cond(1, "d2", <<">">>, 10, LevelCritical),
                      Cond(2, "d2", <<">">>, 12, LevelCritical),
                      Cond(3, "d2", <<">">>, 11, LevelError)>>,
     CooldownPeriod |-> 30]

InitOnePass == NewRuleManager(<<RuleE>>)

InsertBlocks ==
    /\ \E id \in DOMAIN workers : workers[id].pc = "insert"
    /\ \E d \in {59, 60, 61, 120} :
          /\ now + d <= 8 * getBaseCooldown(LevelCritical)
          /\ now' = now + d
    /\ UNCHANGED <<engineVars, limiterVars, call>>

NextOnePass ==
    \/ /\ deviceCache = <<>>
       /\ HandleMQTTMessage(T2, Reading("d2", [f |-> 15]))
       /\ UNCHANGED lastMsg
    \/ \E id \in DOMAIN workers : WorkerStep(id)
    \/ Tick({1}, MaxTime)
    \/ InsertBlocks

SpecOnePass == InitOnePass /\ [][NextOnePass]_vars

\* Scenario S1: RuleA alone and no earlier alert; the triggering reading is
\* delivered on T1 (any number of times within MaxTime seconds), and so are
\* a reading of another device on its own topic and readings whose address
\* does not match.  The scheduler runs the worker whenever it can take a
\* step.
NextSimpleTrigger ==
    \/ \E topic \in Topics, payload \in Payloads :
          /\ HandleMQTTMessage(topic, payload)
          /\ UNCHANGED lastMsg
    \/ \E id \in DOMAIN workers : WorkerStep(id)
    \/ Tick({1}, MaxTime)

SpecSimpleTrigger ==
    /\ Init
    /\ [][NextSimpleTrigger]_vars
    /\ WF_vars(WorkerStep(<<0, 1>>))

\* Scenario S5: the manager starts with RuleA on T1; UpdateRules installs
\* RuleB on T2; after it has returned, messages arrive on T1 and on T2.  The
\* Go scheduler runs every goroutine that can take a step, hence the weak
\* fairness of each worker's steps.
WorkerIds == {<<0, 1>>, <<1, 1>>}

NextHotSwap ==
    \/ /\ ctx = 0
       /\ UpdateRules(<<RuleB>>)
    \/ /\ ctx = 1
       /\ \E payload \in {Reading("d1", [f |-> 15]), Reading("d2", [f |-> 15])} :
             HandleMQTTMessage(T1, payload)
       /\ UNCHANGED lastMsg
    \/ /\ ctx = 1
       /\ HandleMQTTMessage(T2, Reading("d2", [f |-> 15]))
       /\ UNCHANGED lastMsg
    \/ \E id \in DOMAIN workers : WorkerStep(id)
    \/ Tick({1}, MaxTime)

SpecHotSwap ==
    /\ Init
    /\ [][NextHotSwap]_vars
    /\ \A id \in WorkerIds :
          WF_vars(id \in DOMAIN workers /\ WorkerStep(id))

\* The life of the manager: it starts with RuleA on T1, messages arrive on
\* T1 and T2 at any time, UpdateRules installs RuleB on T2 and Shutdown is
\* the last call made on the manager.  The Go scheduler runs every goroutine
\* that can take a step (weak fairness of each worker's steps), and a select
\* with several ready cases picks one at random, so a worker that comes to
\* its select again and again with Done() ready at last takes that case
\* (strong fairness of SelectDone).
NextLifecycle ==
    \/ \E topic \in {T1, T2} :
          /\ HandleMQTTMessage(topic,
                Reading(extractAddressFromTopic(topic), [f |-> 15]))
          /\ UNCHANGED lastMsg
    \/ /\ ctx \notin ctxDone
       /\ UpdateRules(<<RuleB>>)
    \/ Shutdown
    \/ \E id \in DOMAIN workers : WorkerStep(id)
    \/ Tick({1}, MaxTime)

SpecLifecycle ==
    /\ Init
    /\ [][NextLifecycle]_vars
    /\ \A id \in WorkerIds :
          /\ WF_vars(id \in DOMAIN workers /\ WorkerStep(id))
          /\ SF_vars(id \in DOMAIN workers /\ SelectDone(id))

\* The context handed to NewRuleManager is scope -1.  Scope 0 is its child
\* (context.WithCancel(ctx), line 49) and is done as soon as the parent is;
\* the scopes UpdateRules makes are children of context.Background()
\* (line 231), which the parent does not reach.
CancelParent ==
    /\ -1 \notin ctxDone
    /\ ctxDone' = ctxDone \cup {-1, 0}
    /\ UNCHANGED <<now, Rules, ruleChans, chans, ctx, workers, deviceCache,
                   lastAlertTimes, alertCounts, sink, lastMsg, call, lockVars>>

\* The manager starts with RuleA; the caller may replace the rule set once
\* and may cancel the context it gave to NewRuleManager, in either order.
NextParentCancel ==
    \/ \E topic \in {T1, T2} :
          /\ HandleMQTTMessage(topic,
                Reading(extractAddressFromTopic(topic), [f |-> 15]))
          /\ UNCHANGED lastMsg
    \/ /\ ctx = 0
       /\ UpdateRules(<<RuleB>>)
    \/ CancelParent
    \/ \E id \in DOMAIN workers : WorkerStep(id)

SpecParentCancel ==
    /\ Init
    /\ [][NextParentCancel]_vars
    /\ \A id \in WorkerIds :
          /\ WF_vars(id \in DOMAIN workers /\ WorkerStep(id))
          /\ SF_vars(id \in DOMAIN workers /\ SelectDone(id))

\* Rules as they enter the manager: one rule on T1 whose conditions carry
\* the given severities, built as a struct literal (CooldownPeriod unset) or
\* by NewAlertRule (30 s).
RuleOf(levels, cooldown) ==
    [ID |-> 1, Topics |-> <<T1>>, Table |-> "alerts",
     Conditions |-> [i \in DOMAIN levels |->
                        Cond(i, "d1", <<">">>, 10, levels[i])],
     CooldownPeriod |-> cooldown]

EnteringRules ==
    {RuleOf(levels, cooldown) :
        levels \in {<<LevelWarning>>, <<LevelError>>, <<LevelCritical>>,
                    <<LevelWarning, LevelError>>},
        cooldown \in {0, 30}}

\* The manager is built with one entering rule and may be given another by
\* UpdateRules; readings above the threshold arrive on T1.
InitBootstrap == \E rule \in EnteringRules : NewRuleManager(<<rule>>)

NextBootstrap ==
    \/ \E rule \in EnteringRules : UpdateRules(<<rule>>)
    \/ /\ HandleMQTTMessage(T1, Reading("d1", [f |-> 15]))
       /\ UNCHANGED lastMsg
    \/ \E id \in DOMAIN workers : WorkerStep(id)

SpecBootstrap == InitBootstrap /\ [][NextBootstrap]_vars

-----------------------------------------------------------------------------
(* The limiter on its own: its methods called directly, in any order and   *)
(* at any spacing, on one alert key per behaviour (as the package's tests  *)
(* TestShouldTriggerAlert and TestAlertCooldownBackoff call them).         *)

\* The clock advances by the base cooldown of the key's level or by four
\* times it (the limiter's reset period), up to MaxBaseSteps base cooldowns.
LimDeltas == {getBaseCooldown(call.level) * k : k \in {1, 4}}

LimInit ==
    /\ now = 0
    /\ Rules = <<>>
    /\ ruleChans = <<>>
    /\ chans = <<>>
    /\ ctx = 0
    /\ ctxDone = {}
    /\ workers = <<>>
    /\ deviceCache = <<>>
    /\ lastAlertTimes = <<>>
    /\ alertCounts = <<>>
    /\ sink = <<>>
    /\ lastMsg = None
    /\ locks = NoLocks
    /\ tasks = <<>>
    /\ \E level \in Levels :
           call = [op |-> "new", key |-> AlertKey(1, level), level |-> level,
                   ret |-> FALSE, marks |-> 0, spaced |-> TRUE]

\* Once the clock has advanced, the answer of an earlier call is out of date.
LimTick ==
    \E d \in LimDeltas :
        /\ now + d <= getBaseCooldown(call.level) * MaxBaseSteps
        /\ now' = now + d
        /\ call' = [call EXCEPT !.op = "tick", !.ret = FALSE]
        /\ UNCHANGED <<engineVars, limiterVars>>

CallShouldTrigger ==
    \E ret \in BOOLEAN :
        /\ shouldTriggerAlert(call.key, call.level, ret)
        /\ call' = [call EXCEPT !.op = "shouldTrigger", !.ret = ret]
        /\ UNCHANGED <<now, engineVars>>

\* call.marks counts the calls; call.spaced says that each followed the one
\* before it by at most the level's base cooldown.
CallMarkTriggered ==
    /\ call.marks < MaxMarks
    /\ markAlertTriggered(call.key, call.level)
    /\ call' = [call EXCEPT
                   !.op = "markTriggered", !.ret = FALSE, !.marks = @ + 1,
                   !.spaced = @ /\ (call.key \in DOMAIN lastAlertTimes =>
                                      now - lastAlertTimes[call.key]
                                        <= getBaseCooldown(call.level))]
    /\ UNCHANGED <<now, engineVars>>

LimNext == LimTick \/ CallShouldTrigger \/ CallMarkTriggered

SpecLimiter == LimInit /\ [][LimNext]_vars

-----------------------------------------------------------------------------
(* evaluateComplexCondition called directly on compound operators.         *)

\* The words of the atoms: device names, literals and comparison signs.
Word ==
    [D800 |-> Chars["D800"], D392 |-> Chars["D392"], D166 |-> Chars["D166"],
     d1 |-> Chars["d1"], d2 |-> Chars["d2"],
     MOTOR |-> Chars["MOTOR"], HAND |-> Chars["HAND"],
     n900 |-> <<"9", "0", "0">>, n0 |-> <<"0">>, n5 |-> <<"5">>,
     lt |-> <<"<">>, gt |-> <<">">>, eq |-> <<"=", "=">>,
     ne |-> <<"!", "=">>, tilde |-> <<"~">>]

\* Atoms, each the sequence of its words.
Atoms ==
    {<<Word.D800, Word.lt, Word.n900>>,
     <<Word.D392, Word.eq, Word.D166>>,
     <<Word.D166, Word.ne, Word.n0>>,
     <<Word.d1, Word.gt>>,                     \* two words
     <<Word.d1, Word.tilde, Word.n5>>,         \* no comparison operator
     <<Word.d2, Word.gt, Word.n5>>,
     <<Word.MOTOR, Word.gt, Word.n5>>,
     <<Word.HAND, Word.gt, Word.n5>>}

\* Expressions: two atoms under a connective, and the three atoms of S2.
Expressions ==
    [conn : {AND, OR}, atoms : Atoms \X Atoms]
      \cup {[conn |-> AND,
              atoms |-> <<<<Word.D800, Word.lt, Word.n900>>,
                          <<Word.D392, Word.eq, Word.D166>>,
                          <<Word.D166, Word.ne, Word.n0>>>>]}

\* The words of `words` with `sep` between them, as one string.
RECURSIVE Join(_, _)
Join(words, sep) ==
    IF Len(words) = 0 THEN <<>>
    ELSE IF Len(words) = 1 THEN words[1]
    ELSE words[1] \o sep \o Join(Tail(words), sep)

\* The Operator string of an expression: "D800 < 900 AND D392 == D166".
OperatorOf(expr) ==
    Join([i \in DOMAIN expr.atoms |-> Join(expr.atoms[i], <<" ">>)],
         <<" ">> \o expr.conn \o <<" ">>)

\* Converted payloads: the readings of S2, a snapshot where no atom of S2
\* holds, and one that lacks most devices.
FloatPayloads ==
    {[D800 |-> 850, D392 |-> 5, D166 |-> 5, MOTOR |-> 10, HAND |-> 10, d1 |-> 7],
     [D800 |-> 950, D392 |-> 5, D166 |-> 6, MOTOR |-> 1, HAND |-> 1, d1 |-> 7],
     [d1 |-> 7, D166 |-> 5]}

CompoundInit ==
    /\ now = 0
    /\ Rules = <<>>
    /\ ruleChans = <<>>
    /\ chans = <<>>
    /\ ctx = 0
    /\ ctxDone = {}
    /\ workers = <<>>
    /\ deviceCache = <<>>
    /\ lastAlertTimes = <<>>
    /\ alertCounts = <<>>
    /\ sink = <<>>
    /\ lastMsg = None
    /\ locks = NoLocks
    /\ tasks = <<>>
    /\ \E expr \in Expressions, values \in FloatPayloads :
           call = [op |-> "new", expr |-> expr, values |-> values,
                   ret |-> FALSE]

CallEvaluateComplex ==
    /\ call.op = "new"
    /\ call' = [call EXCEPT
                   !.op = "evaluateComplexCondition",
                   !.ret = evaluateComplexCondition(OperatorOf(call.expr),
                                                    call.values)]
    /\ UNCHANGED <<now, engineVars, limiterVars>>

CompoundNext == CallEvaluateComplex

SpecCompound == CompoundInit /\ [][CompoundNext]_vars

-----------------------------------------------------------------------------
(* isValidValue called directly, as TestIsValidValue does.                 *)

Numbers == {-5, -1, 0, 1, 5, 15}

\* Values of the dynamic types a Go `any` can hold: the numeric types the
\* switch names, two it does not name, strings, bools and nil.
AnyValues ==
    [f : Numbers] \cup [f32 : Numbers] \cup [i : Numbers]
      \cup [i32 : Numbers] \cup [i64 : Numbers]
      \cup [u : {0, 1, 5, 15}] \cup [u8 : {0, 1, 5, 15}]
      \cup [s : {"", "0", "0.0", "0.00", "00", " ", "-0", "0.5", "15", "value"}]
      \cup [b : BOOLEAN] \cup {[nil |-> TRUE]}

ValidInit ==
    /\ now = 0
    /\ Rules = <<>>
    /\ ruleChans = <<>>
    /\ chans = <<>>
    /\ ctx = 0
    /\ ctxDone = {}
    /\ workers = <<>>
    /\ deviceCache = <<>>
    /\ lastAlertTimes = <<>>
    /\ alertCounts = <<>>
    /\ sink = <<>>
    /\ lastMsg = None
    /\ locks = NoLocks
    /\ tasks = <<>>
    /\ \E value \in AnyValues :
           call = [op |-> "new", value |-> value, ret |-> FALSE]

CallIsValidValue ==
    /\ call.op = "new"
    /\ call' = [call EXCEPT !.op = "isValidValue",
                            !.ret = isValidValue(call.value)]
    /\ UNCHANGED <<now, engineVars, limiterVars>>

ValidNext == CallIsValidValue

SpecValid == ValidInit /\ [][ValidNext]_vars

-----------------------------------------------------------------------------
(* The lock discipline.  The goroutines are followed lock by lock: a step  *)
(* acquires one lock, or runs the code up to the next acquisition or       *)
(* release.  A task waiting for a lock stands at "Lock", "RLock",          *)
(* "ruleLock", "alertLock1" or "alertLock2".  The tasks: the worker w1 of  *)
(* RuleC, started by NewRuleManager; the MQTT callback (ingress), which    *)
(* handles one message at a time; one call of UpdateRules (update), which  *)
(* installs RuleC again and starts its worker w2.                          *)

LockWorkers == {"w1", "w2"}

LockWaiting == {"Lock", "RLock", "ruleLock", "alertLock1", "alertLock2"}

\* The locks a task holds.
Holds(t) ==
    {l \in {"mu"} : \E mode \in {"r", "w"} : <<t, mode>> \in locks.mu}
      \cup {l \in {"alertMu"} : t \in locks.alertMu}
      \cup {l \in {"ruleMu"} : t \in locks.ruleMu}

\* A faulty write lock, for comparison: it waits for writers only.
CanLockAmongReaders == \A h \in locks.mu : h[2] # "w"

\* m.mu.Lock() returns once nobody holds m.mu.
CanLock == locks.mu = {}

\* m.mu.RLock() returns once no writer holds m.mu or waits for it.
CanRLock ==
    /\ \A h \in locks.mu : h[2] # "w"
    /\ \A t \in DOMAIN tasks : tasks[t].pc # "Lock"

\* A faulty limiter, for comparison: shouldTriggerAlert returns with
\* m.alertMu still locked.
alertMuStillLocked(t) == locks

\* defer m.alertMu.Unlock()
alertMuUnlock(t) == [locks EXCEPT !.alertMu = @ \ {t}]

LockWorker(pc) ==
    [pc |-> pc, sel |-> 0, ti |-> 0, snapshot |-> NilSnapshot, lat |-> <<>>]

LockInit ==
    /\ now = 0
    /\ Rules = <<RuleC>>
    /\ ruleChans = (RuleC.ID :> "w1")
    /\ chans = [w \in LockWorkers |-> 0]
    /\ ctx = 0
    /\ ctxDone = {}
    /\ workers = <<>>
    /\ deviceCache = <<>>
    /\ lastAlertTimes = <<>>
    /\ alertCounts = <<>>
    /\ sink = <<>>
    /\ lastMsg = None
    /\ call = None
    /\ locks = NoLocks
    /\ tasks = [t \in LockWorkers \cup {"ingress", "update"} |->
                  CASE t = "w1" -> LockWorker("loop")
                    [] t = "w2" -> LockWorker("unborn")
                    [] t = "ingress" -> [pc |-> "idle", topic |-> T1,
                                         value |-> [f |-> 15]]
                    [] OTHER -> [pc |-> "idle"]]

LockUnchanged(changed) ==
    /\ "now" \in changed \/ UNCHANGED now
    /\ UNCHANGED <<Rules, workers, lastMsg, call>>
    /\ "ruleChans" \in changed \/ UNCHANGED <<ruleChans, ctx, ctxDone>>
    /\ "chans" \in changed \/ UNCHANGED chans
    /\ "deviceCache" \in changed \/ UNCHANGED deviceCache
    /\ "limiter" \in changed \/ UNCHANGED <<lastAlertTimes, alertCounts>>
    /\ "sink" \in changed \/ UNCHANGED sink
    /\ "locks" \in changed \/ UNCHANGED locks

\* ruleWorker: the top of the loop, where m.ctx.Done() is evaluated.
LockEnterSelect(w) ==
    /\ tasks[w].pc = "loop"
    /\ tasks' = [tasks EXCEPT ![w].pc = "select", ![w].sel = ctx]
    /\ LockUnchanged({})

\* case <-m.ctx.Done(): return
LockSelectDone(w) ==
    /\ tasks[w].pc = "select"
    /\ tasks[w].sel \in ctxDone
    /\ tasks' = [tasks EXCEPT ![w].pc = "done"]
    /\ LockUnchanged({})

\* case <-triggerChan: m.evaluateRule(rule, cfg)
LockSelectSignal(w) ==
    /\ tasks[w].pc = "select"
    /\ chans[w] = 1
    /\ chans' = [chans EXCEPT ![w] = 0]
    /\ tasks' = [tasks EXCEPT ![w].pc = "RLock"]
    /\ LockUnchanged({"chans"})

\* createRuleSnapshot: m.mu.RLock()
LockRLock(w) ==
    /\ tasks[w].pc = "RLock"
    /\ CanRLock
    /\ locks' = [locks EXCEPT !.mu = @ \cup {<<w, "r">>}]
    /\ tasks' = [tasks EXCEPT ![w].pc = "read", ![w].ti = 1,
                              ![w].snapshot = [isnil |-> FALSE, vals |-> <<>>]]
    /\ LockUnchanged({"locks"})

\* createRuleSnapshot: one round of the loop over rule.Topics.
LockRead(w) ==
    /\ tasks[w].pc = "read"
    /\ LET ti == tasks[w].ti
           key == RuleKey(RuleC, ti)
       IN  tasks' = [tasks EXCEPT ![w] =
              IF ~EntryUsable(key)
                THEN [@ EXCEPT !.pc = "RUnlock", !.snapshot = NilSnapshot]
                ELSE [@ EXCEPT
                        !.snapshot.vals = (key[2] :> deviceCache[key].value) @@ @,
                        !.ti = ti + 1,
                        !.pc = IF ti = Len(RuleC.Topics)
                                 THEN "RUnlock" ELSE "read"]]
    /\ LockUnchanged({})

\* createRuleSnapshot returns (defer m.mu.RUnlock()); evaluateRule goes on
\* if the snapshot is not nil.
LockRUnlock(w) ==
    /\ tasks[w].pc = "RUnlock"
    /\ locks' = [locks EXCEPT !.mu = @ \ {<<w, "r">>}]
    /\ LET snapshot == tasks[w].snapshot
           complete == /\ ~snapshot.isnil
                       /\ Cardinality(DOMAIN snapshot.vals) = Len(RuleC.Topics)
       IN  tasks' = [tasks EXCEPT ![w].pc =
                        IF complete THEN "evaluate" ELSE "loop"]
    /\ LockUnchanged({"locks"})

\* rule.Evaluate up to its call of shouldAlert: no lock is taken.
LockEvaluate(w) ==
    /\ tasks[w].pc = "evaluate"
    /\ LET conv == convertPayload(tasks[w].snapshot.vals)
           triggered == ~conv.err /\ evaluateConditions(RuleC, conv.vals)
       IN  tasks' = [tasks EXCEPT ![w].pc =
                        IF triggered THEN "ruleLock" ELSE "loop"]
    /\ LockUnchanged({})

\* shouldAlert: r.mu.Lock(); every worker has a rule object of its own.
LockRuleLock(w) ==
    /\ tasks[w].pc = "ruleLock"
    /\ w \notin locks.ruleMu
    /\ locks' = [locks EXCEPT !.ruleMu = @ \cup {w}]
    /\ tasks' = [tasks EXCEPT ![w].pc = "shouldAlert"]
    /\ LockUnchanged({"locks"})

\* shouldAlert: its body and defer r.mu.Unlock().
LockShouldAlert(w) ==
    /\ tasks[w].pc = "shouldAlert"
    /\ LET id == RuleC.Conditions[1].ID
           ok == shouldAlert(tasks[w].lat, RuleC.CooldownPeriod, id)
       IN  tasks' = [tasks EXCEPT ![w] =
              IF ok THEN [@ EXCEPT !.pc = "alertLock1",
                                   !.lat = (id :> now) @@ @]
                    ELSE [@ EXCEPT !.pc = "loop"]]
    /\ locks' = [locks EXCEPT !.ruleMu = @ \ {w}]
    /\ LockUnchanged({"locks"})

\* shouldTriggerAlert and markAlertTriggered: m.alertMu.Lock()
LockAlertLock(w) ==
    /\ tasks[w].pc \in {"alertLock1", "alertLock2"}
    /\ locks.alertMu = {}
    /\ locks' = [locks EXCEPT !.alertMu = {w}]
    /\ tasks' = [tasks EXCEPT ![w].pc =
                     IF tasks[w].pc = "alertLock1"
                       THEN "shouldTrigger" ELSE "mark"]
    /\ LockUnchanged({"locks"})

\* shouldTriggerAlert: its body and defer m.alertMu.Unlock().
LockShouldTrigger(w) ==
    /\ tasks[w].pc = "shouldTrigger"
    /\ \E ret \in BOOLEAN :
          /\ shouldTriggerAlert(AlertKey(RuleC.ID, RuleC.Conditions[1].Level),
                                RuleC.Conditions[1].Level, ret)
          /\ tasks' = [tasks EXCEPT ![w].pc = IF ret THEN "insert" ELSE "loop"]
    /\ locks' = alertMuUnlock(w)
    /\ LockUnchanged({"locks", "limiter"})

\* supabase.InsertAlert(...)
LockInsert(w) ==
    /\ tasks[w].pc = "insert"
    /\ sink' = Append(sink,
                  [key |-> AlertKey(RuleC.ID, RuleC.Conditions[1].Level),
                   at |-> now, holds |-> Holds(w)])
    /\ tasks' = [tasks EXCEPT ![w].pc = "alertLock2"]
    /\ LockUnchanged({"sink"})

\* markAlertTriggered: its body and defer m.alertMu.Unlock().
LockMark(w) ==
    /\ tasks[w].pc = "mark"
    /\ markAlertTriggered(AlertKey(RuleC.ID, RuleC.Conditions[1].Level),
                          RuleC.Conditions[1].Level)
    /\ locks' = [locks EXCEPT !.alertMu = @ \ {w}]
    /\ tasks' = [tasks EXCEPT ![w].pc = "loop"]
    /\ LockUnchanged({"locks", "limiter"})

LockWorkerStep(w) ==
    \/ LockEnterSelect(w)
    \/ LockSelectDone(w)
    \/ LockSelectSignal(w)
    \/ LockRLock(w)
    \/ LockRead(w)
    \/ LockRUnlock(w)
    \/ LockEvaluate(w)
    \/ LockRuleLock(w)
    \/ LockShouldAlert(w)
    \/ LockAlertLock(w)
    \/ LockShouldTrigger(w)
    \/ LockInsert(w)
    \/ LockMark(w)

\* HandleMQTTMessage up to m.mu.Lock(): the message passes the checks.
IngressReceive ==
    /\ tasks["ingress"].pc = "idle"
    /\ \E topic \in Topics, v \in {15, 20} :
          /\ topic = T2 => v = 15
          /\ Accepts(topic, Reading(extractAddressFromTopic(topic), [f |-> v]))
          /\ tasks' = [tasks EXCEPT !["ingress"] =
                          [pc |-> "Lock", topic |-> topic, value |-> [f |-> v]]]
    /\ LockUnchanged({})

\* m.mu.Lock()
IngressLock ==
    /\ tasks["ingress"].pc = "Lock"
    /\ CanLock
    /\ locks' = [locks EXCEPT !.mu = {<<"ingress", "w">>}]
    /\ tasks' = [tasks EXCEPT !["ingress"].pc = "write"]
    /\ LockUnchanged({"locks"})

\* m.deviceCache[key] = cachedValue{value, now}
IngressWrite ==
    /\ tasks["ingress"].pc = "write"
    /\ deviceCache' = CachePut(tasks["ingress"].topic,
                               extractAddressFromTopic(tasks["ingress"].topic),
                               tasks["ingress"].value)
    /\ tasks' = [tasks EXCEPT !["ingress"].pc = "signal"]
    /\ LockUnchanged({"deviceCache"})

\* "Signal relevant rules", then the handler returns (defer m.mu.Unlock()).
IngressSignal ==
    /\ tasks["ingress"].pc = "signal"
    /\ chans' = SignalRules(tasks["ingress"].topic)
    /\ locks' = [locks EXCEPT !.mu = @ \ {<<"ingress", "w">>}]
    /\ tasks' = [tasks EXCEPT !["ingress"].pc = "idle"]
    /\ LockUnchanged({"chans", "locks"})

\* UpdateRules is called.
UpdateCall ==
    /\ tasks["update"].pc = "idle"
    /\ tasks' = [tasks EXCEPT !["update"].pc = "Lock"]
    /\ LockUnchanged({})

\* m.mu.Lock()
UpdateLock ==
    /\ tasks["update"].pc = "Lock"
    /\ CanLock
    /\ locks' = [locks EXCEPT !.mu = {<<"update", "w">>}]
    /\ tasks' = [tasks EXCEPT !["update"].pc = "swap"]
    /\ LockUnchanged({"locks"})

\* The body of UpdateRules, then defer m.mu.Unlock().
UpdateSwap ==
    /\ tasks["update"].pc = "swap"
    /\ ctxDone' = ctxDone \cup {ctx}
    /\ ctx' = ctx + 1
    /\ ruleChans' = (RuleC.ID :> "w2")
    /\ locks' = [locks EXCEPT !.mu = @ \ {<<"update", "w">>}]
    /\ tasks' = [tasks EXCEPT !["update"].pc = "done", !["w2"].pc = "loop"]
    /\ LockUnchanged({"ruleChans", "locks"})

NextLocks ==
    \/ \E w \in LockWorkers : LockWorkerStep(w)
    \/ IngressReceive
    \/ IngressLock
    \/ IngressWrite
    \/ IngressSignal
    \/ UpdateCall
    \/ UpdateLock
    \/ UpdateSwap

SpecLocks == LockInit /\ [][NextLocks]_vars

\* A step of a task that is inside a call: any step but the arrival of a
\* message and the call of UpdateRules.
LockProgress ==
    \/ \E w \in LockWorkers : LockWorkerStep(w)
    \/ IngressLock
    \/ IngressWrite
    \/ IngressSignal
    \/ UpdateLock
    \/ UpdateSwap

-----------------------------------------------------------------------------
(* createRuleSnapshot called directly on a prepared cache, as              *)
(* TestCreateRuleSnapshot does.                                            *)

\* A second topic that ends in the device address of T1.
T1x == <<"x", "d1">>

\* A rule whose two topics end in the same device address.
RuleSameAddress ==
    [ID |-> 5, Topics |-> <<T1, T1x>>, Table |-> "alerts",
     Conditions |-> <<Cond(1, "d1", <<">">>, 10, LevelWarning)>>,
     CooldownPeriod |-> 30]

\* The same rule with one topic listed twice.
RuleSameTopic == [RuleSameAddress EXCEPT !.Topics = <<T1, T1>>]

SnapshotRules == {RuleA, RuleC, RuleSameAddress, RuleSameTopic}

SnapshotKeys == {<<T1, "d1">>, <<T2, "d2">>, <<T1x, "d1">>}

\* The time of the call, and what the cache may hold under a key: nothing,
\* or an entry that is new, exactly cacheTTL old, older, or invalid.
SnapshotNow == 400

SnapshotEntries ==
    {None,
     [value |-> [i |-> 10], timestamp |-> SnapshotNow],
     [value |-> [i |-> 20], timestamp |-> SnapshotNow - cacheTTL],
     [value |-> [i |-> 10], timestamp |-> SnapshotNow - cacheTTL - 1],
     [value |-> [i |-> 0], timestamp |-> SnapshotNow]}

SnapshotInit ==
    /\ now = SnapshotNow
    /\ Rules = <<>>
    /\ ruleChans = <<>>
    /\ chans = <<>>
    /\ ctx = 0
    /\ ctxDone = {}
    /\ workers = <<>>
    /\ \E entries \in [SnapshotKeys -> SnapshotEntries] :
          deviceCache = [key \in {k \in SnapshotKeys : entries[k] # None}
                           |-> entries[key]]
    /\ lastAlertTimes = <<>>
    /\ alertCounts = <<>>
    /\ sink = <<>>
    /\ lastMsg = None
    /\ locks = NoLocks
    /\ tasks = <<>>
    /\ \E rule \in SnapshotRules :
          call = [op |-> "new", rule |-> rule, ret |-> NilSnapshot]

CallCreateRuleSnapshot ==
    /\ call.op = "new"
    /\ call' = [call EXCEPT !.op = "createRuleSnapshot",
                            !.ret = createRuleSnapshot(call.rule)]
    /\ UNCHANGED <<now, engineVars, limiterVars>>

SnapshotNext == CallCreateRuleSnapshot

SpecSnapshot == SnapshotInit /\ [][SnapshotNext]_vars

-----------------------------------------------------------------------------
(* Scenario S2: a rule with a compound condition over three devices.       *)

TD800 == <<"s", "D800">>
TD392 == <<"s", "D392">>
TD166 == <<"s", "D166">>

\* "D800 < 900 AND D392 == D166 AND D166 != 0"
OperatorS2 ==
    OperatorOf([conn |-> AND,
                atoms |-> <<<<Word.D800, Word.lt, Word.n900>>,
                            <<Word.D392, Word.eq, Word.D166>>,
                            <<Word.D166, Word.ne, Word.n0>>>>])

RuleS2 ==
    [ID |-> 4, Topics |-> <<TD800, TD392, TD166>>, Table |-> "alerts",
     Conditions |-> <<Cond(1, "D800", OperatorS2, 900, LevelWarning)>>,
     CooldownPeriod |-> 30]

\* The readings of S2, each on its device's topic: the three that make the
\* rule trigger, and the zero reading of D166.
MessagesS2 ==
    {<<TD800, Reading("D800", [f |-> 850])>>,
     <<TD392, Reading("D392", [f |-> 5])>>,
     <<TD166, Reading("D166", [f |-> 5])>>,
     <<TD166, Reading("D166", [f |-> 0])>>}

InitS2 == NewRuleManager(<<RuleS2>>)

NextS2 ==
    \/ \E msg \in MessagesS2 : OnMessage(msg[1], msg[2])
    \/ \E id \in DOMAIN workers : WorkerStep(id)
    \/ Tick({1}, MaxTime)

SpecS2 == InitS2 /\ [][NextS2]_vars

-----------------------------------------------------------------------------
(* Properties of the limiter, checked under SpecLimiter.                   *)

Clamp(lo, x, hi) == IF x < lo THEN lo ELSE IF x > hi THEN hi ELSE x

\* The base cooldown the design gives each severity, in seconds.
DesignBase(level) ==
    CASE level = LevelCritical -> 30
      [] level = LevelError -> 60
      [] level = LevelWarning -> 300

\* The effective cooldown the design gives a key after `count` triggers.
DesignCooldown(level, count) ==
    Clamp(DesignBase(level), DesignBase(level) * 2 ^ count,
          8 * DesignBase(level))

-----------------------------------------------------------------------------
(* The contract of the cache, the handler and the hot swap, stated on its   *)
(* own terms.                                                               *)

\* The validity filter: null, numeric zero, "", "0" and "0.0" are unusable.
DesignValid(value) ==
    value \notin {[nil |-> TRUE], [f |-> 0], [i |-> 0],
                  [s |-> ""], [s |-> "0"], [s |-> "0.0"]}

\* The last '/'-separated segment of a topic.
DesignLastSegment(topic) == topic[Len(topic)]

\* The cache holds for `topic` an entry that exists, is at most cacheTTL old
\* and carries a usable value.
DesignFresh(topic) ==
    LET key == <<topic, DesignLastSegment(topic)>>
    IN  /\ key \in DOMAIN deviceCache
        /\ now - deviceCache[key].timestamp <= cacheTTL
        /\ DesignValid(deviceCache[key].value)

\* The payload parses and carries a string "address" and a "value".
DesignWellFormed(payload) ==
    /\ "obj" \in DOMAIN payload
    /\ "address" \in DOMAIN payload.obj
    /\ "s" \in DOMAIN payload.obj.address
    /\ "value" \in DOMAIN payload.obj

DesignMismatch(topic, payload) ==
    /\ "obj" \in DOMAIN payload
    /\ "address" \in DOMAIN payload.obj
    /\ "s" \in DOMAIN payload.obj.address
    /\ DesignLastSegment(topic) # payload.obj.address.s

DesignRejected(payload) ==
    \/ ~DesignWellFormed(payload)
    \/ ~DesignValid(payload.obj.value)

DesignAccepted(topic, payload) ==
    /\ DesignWellFormed(payload)
    /\ DesignValid(payload.obj.value)
    /\ DesignLastSegment(topic) = payload.obj.address.s

\* The step is a call of the handler, under SpecS1: a step after which
\* lastMsg holds a message delivered at the present time and that moves
\* neither the clock nor a worker.  lastMsg' is the message handled.
Delivered ==
    /\ now' = now
    /\ lastMsg' # None
    /\ lastMsg'.at = now
    /\ workers' = workers

\* The part of evaluateRule that follows a non-nil snapshot.
Evaluating == {"evaluate", "should", "insert", "mark"}

\* C1: a worker starts evaluating the conditions of its rule only on taking
\* a snapshot at an instant when the cache holds, for every topic of the
\* rule, an entry that exists, is at most cacheTTL old and passes the
\* validity filter; a condition is reported triggered only within such an
\* evaluation, and a sink insert is made only by a worker that holds a
\* triggered condition of such an evaluation.
C1_SnapshotFreshness ==
    [][/\ \A id \in DOMAIN workers :
             /\ (workers'[id].pc \in Evaluating /\ workers[id].pc \notin Evaluating)
                  => /\ workers[id].pc = "snapshot"
                     /\ \A i \in DOMAIN workers[id].rule.Topics :
                           DesignFresh(workers[id].rule.Topics[i])
             /\ (workers'[id].pc = "should" /\ workers[id].pc # "should")
                  => workers[id].pc = "evaluate"
             /\ (workers'[id].pc = "insert" /\ workers[id].pc # "insert")
                  => workers[id].pc = "should"
       /\ sink' # sink
            => \E id \in DOMAIN workers :
                  /\ workers[id].pc = "insert"
                  /\ workers'[id].pc = "mark"
                  /\ Len(sink') = Len(sink) + 1]_vars

\* The worker of the two-topic rule has made a sink insert.
C1_Witness ==
    \E id \in DOMAIN workers :
        /\ Len(workers[id].rule.Topics) = 2
        /\ workers[id].pc = "mark"
        /\ Len(sink) >= 1

\* C2: no two sink inserts for the same alert key lie within the key's
\* cooldown of each other.  The effective cooldown is never below the base
\* cooldown of the key's severity, so two inserts for one key at most the
\* base cooldown apart break the rule.
C2_NoInsertWithinCooldown ==
    \A i, j \in DOMAIN sink :
        (i < j /\ sink[i].key = sink[j].key)
          => sink[j].at - sink[i].at > DesignBase(sink[i].key[2])

\* C3: in scenario S5, once UpdateRules([B on t2]) has returned, no token
\* is ever on A's channel, A's worker never evaluates and no sink insert is
\* made for A; as long as only t1 has delivered, B's worker is not signalled
\* either; and a delivery on t2 that meets B's condition leads to a sink
\* insert for B carrying the delivered value.
C3_HotSwap ==
    /\ [](ctx = 1 =>
            /\ chans[<<0, 1>>] = 0
            /\ workers[<<0, 1>>].pc \in {"loop", "select", "done"}
            /\ \A i \in DOMAIN sink : sink[i].key[1] # RuleA.ID
            /\ <<T2, "d2">> \notin DOMAIN deviceCache
                 => /\ chans[<<1, 1>>] = 0
                    /\ workers[<<1, 1>>].pc \in {"loop", "select"})
    /\ (ctx = 1 /\ <<T2, "d2">> \in DOMAIN deviceCache)
         ~> (\E i \in DOMAIN sink :
                /\ sink[i].key = <<RuleB.ID, LevelCritical>>
                /\ sink[i].message.current = 15)

\* After the swap both topics have delivered and B has fired.
C3_Witness ==
    /\ ctx = 1
    /\ <<T1, "d1">> \in DOMAIN deviceCache
    /\ \E i \in DOMAIN sink : sink[i].key = <<RuleB.ID, LevelCritical>>

\* C4: a handler call that accepts a message on topic T puts a token on the
\* channel of every rule of the current rule set whose Topics contain T
\* (the channel its worker receives from), and leaves every other channel,
\* those of the workers of previous rule sets included, as it was.
C4_FanOut ==
    [][\A topic \in Topics, payload \in Payloads :
          (DesignAccepted(topic, payload) /\ HandleMQTTMessage(topic, payload))
            => \A c \in DOMAIN chans :
                  IF c[1] = ctx /\ (\E k \in DOMAIN Rules[c[2]].Topics :
                                       Rules[c[2]].Topics[k] = topic)
                    THEN chans'[c] = 1
                    ELSE chans'[c] = chans[c]]_vars

\* After the swap a message on T1 has signalled RuleC and neither RuleB nor
\* the worker of the previous set, which is still waiting in its select.
C4_Witness ==
    /\ ctx = 1
    /\ chans[<<1, 1>>] = 1
    /\ chans[<<1, 2>>] = 0
    /\ chans[<<0, 1>>] = 0
    /\ workers[<<0, 1>>].pc = "select"
    /\ <<T2, "d2">> \notin DOMAIN deviceCache

\* C5: a handler call for a message whose topic's last segment differs
\* from the payload's address leaves the cache and every channel unchanged.
C5_MismatchFrame ==
    [][(Delivered /\ DesignMismatch(lastMsg'.topic, lastMsg'.payload))
         => /\ deviceCache' = deviceCache
            /\ chans' = chans]_vars

\* A mismatching message was handled while the cache held a reading.
C5_Witness ==
    /\ lastMsg # None
    /\ DesignMismatch(lastMsg.topic, lastMsg.payload)
    /\ \E key \in DOMAIN deviceCache :
          deviceCache[key].timestamp <= lastMsg.at

\* C6: a handler call for a message that does not parse, lacks a string
\* address, lacks a value or carries an unusable value leaves the cache,
\* every channel and the limiter unchanged; and the message delivered after
\* a rejected one is processed: when acceptable it is stored under its key
\* with the time of the call.
C6_RejectedDiscarded ==
    [][Delivered =>
          /\ DesignRejected(lastMsg'.payload)
               => /\ deviceCache' = deviceCache
                  /\ chans' = chans
                  /\ lastAlertTimes' = lastAlertTimes
                  /\ alertCounts' = alertCounts
          /\ (/\ lastMsg # None
              /\ DesignRejected(lastMsg.payload)
              /\ DesignAccepted(lastMsg'.topic, lastMsg'.payload))
               => LET key == <<lastMsg'.topic, lastMsg'.payload.obj.address.s>>
                  IN  /\ key \in DOMAIN deviceCache'
                      /\ deviceCache'[key] =
                            [value |-> lastMsg'.payload.obj.value,
                             timestamp |-> now]]_vars

\* A rejected message was handled while the cache held a reading, a token
\* was pending and the limiter held a record.
C6_Witness ==
    /\ lastMsg # None
    /\ DesignRejected(lastMsg.payload)
    /\ \E key \in DOMAIN deviceCache :
          deviceCache[key].timestamp <= lastMsg.at
    /\ \E c \in DOMAIN chans : chans[c] = 1
    /\ DOMAIN lastAlertTimes # {}

\* A read of the cache entry of `topic`, as a rule on that topic alone makes.
CacheRead(topic) == createRuleSnapshot([Topics |-> <<topic>>])

\* C7: when the last message delivered was accepted for key (topic,
\* address) at time t, a read of the key at a time at most cacheTTL after t
\* returns the message's value, and a read later than that reports the entry
\* unusable.
C7_CacheReadFreshness ==
    (lastMsg # None /\ DesignAccepted(lastMsg.topic, lastMsg.payload))
      => LET read == CacheRead(lastMsg.topic)
             address == lastMsg.payload.obj.address.s
         IN  IF now - lastMsg.at <= cacheTTL
               THEN /\ ~read.isnil
                    /\ read.vals[address] = lastMsg.payload.obj.value
               ELSE read.isnil

\* A reading is read exactly cacheTTL after it was accepted.
C7_Witness ==
    /\ lastMsg # None
    /\ DesignAccepted(lastMsg.topic, lastMsg.payload)
    /\ now - lastMsg.at = cacheTTL

\* C8: shouldTrigger(alertKey, level) answers true when the key has no
\* prior record, and otherwise answers true if and only if
\* now - lastTime(alertKey) is strictly greater than the key's effective
\* cooldown clamp(base, base * 2^count, 8 * base).
C8_ShouldTriggerAnswer ==
    call.op = "shouldTrigger" =>
        call.ret = (\/ call.key \notin DOMAIN lastAlertTimes
                    \/ now - lastAlertTimes[call.key]
                         > DesignCooldown(call.level,
                                          CountOf(alertCounts, call.key)))

\* C8's case: a key with a record and a backed-off cooldown is asked about
\* after the cooldown has expired, and the answer is true.
C8_Witness ==
    /\ call.op = "shouldTrigger"
    /\ call.ret
    /\ call.key \in DOMAIN lastAlertTimes
    /\ CountOf(alertCounts, call.key) >= 2

\* C9: shouldTrigger only reads the limiter: a call leaves lastAlertTimes
\* and alertCounts as they were (it makes no record for the key), and a call
\* that follows another at the same instant, with no markTriggered in
\* between, returns the same answer.
C9_ShouldTriggerReadOnly ==
    [][(call'.op = "shouldTrigger" /\ now' = now) =>
          /\ lastAlertTimes' = lastAlertTimes
          /\ alertCounts' = alertCounts
          /\ (call.op = "shouldTrigger" => call'.ret = call.ret)]_vars

\* C9's case: the key was asked about, answered true, and has no record.
C9_Witness ==
    /\ call.op = "shouldTrigger"
    /\ call.ret
    /\ call.key \notin DOMAIN lastAlertTimes
    /\ call.key \notin DOMAIN alertCounts

\* C10: for each level, after n markTriggered calls each at most a base
\* cooldown after the one before, the count is n and the effective cooldown
\* is clamp(base, base * 2^n, 8 * base) with base 30 s / 60 s / 300 s for
\* Critical / Error / Warning; the effective cooldown is never below base
\* nor above 8 * base.
C10_BackoffClamp ==
    LET cooldown == getCooldown(call.key, call.level)
        base == DesignBase(call.level)
    IN  /\ base <= cooldown
        /\ cooldown <= 8 * base
        /\ call.spaced =>
              /\ CountOf(alertCounts, call.key) = call.marks
              /\ cooldown = DesignCooldown(call.level, call.marks)

\* C10's case: more than three closely spaced triggers, some time apart, so
\* that base * 2^n exceeds the cap.
C10_Witness ==
    /\ call.spaced
    /\ call.marks >= 4
    /\ now >= 3 * getBaseCooldown(call.level)
    /\ getCooldown(call.key, call.level) = 8 * getBaseCooldown(call.level)

\* C11: markTriggered first resets the count to 0 when the key has a record
\* older than 4 times the base cooldown of the level, then adds one to the
\* count and sets the last time to now; so a trigger after such a pause
\* leaves the count at 1 and the effective cooldown at twice the base.
C11_MarkTriggered ==
    [][call'.op = "markTriggered" =>
          LET key == call.key
              base == DesignBase(call.level)
              before == IF key \in DOMAIN alertCounts
                          THEN alertCounts[key] ELSE 0
              paused == /\ key \in DOMAIN lastAlertTimes
                        /\ now - lastAlertTimes[key] > 4 * base
          IN  /\ key \in DOMAIN alertCounts'
              /\ key \in DOMAIN lastAlertTimes'
              /\ alertCounts'[key] = (IF paused THEN 0 ELSE before) + 1
              /\ lastAlertTimes'[key] = now
              /\ paused =>
                    /\ alertCounts'[key] = 1
                    /\ getCooldown(key, call.level)' = 2 * base]_vars

\* C11's case: the key was marked several times, then marked again after a
\* pause, and its count is back at 1.
C11_Witness ==
    /\ call.op = "markTriggered"
    /\ call.marks >= 3
    /\ call.key \in DOMAIN alertCounts
    /\ alertCounts[call.key] = 1
    /\ lastAlertTimes[call.key] = now

\* The comparison an operator stands for.
DesignCompare(a, operator, b) ==
    \/ operator = <<">">> /\ a > b
    \/ operator = <<"<">> /\ a < b
    \/ operator = <<">", "=">> /\ a >= b
    \/ operator = <<"<", "=">> /\ a <= b
    \/ operator = <<"=", "=">> /\ a = b
    \/ operator = <<"!", "=">> /\ a # b

\* The number a cached value stands for.
DesignNumber(value) ==
    IF "f" \in DOMAIN value THEN value.f ELSE value.i

\* The predicate of a simple condition on a snapshot.
DesignSimpleHolds(condition, snapshot) ==
    /\ condition.Device \in DOMAIN snapshot
    /\ DesignCompare(DesignNumber(snapshot[condition.Device]),
                     condition.Operator, condition.Threshold)

\* C12: a condition is reported triggered only if its own predicate holds
\* on the snapshot, and every sink insert carries the table of a rule and
\* the device and threshold of one of its conditions whose predicate holds
\* for the value carried.
C12_TriggeredOnlyIfOwnPredicate ==
    /\ \A id \in DOMAIN workers :
          workers[id].pc \in {"should", "insert", "mark"}
            => DesignSimpleHolds(workers[id].rule.Conditions[workers[id].ci],
                                 workers[id].snapshot)
    /\ \A i \in DOMAIN sink :
          \E r \in DOMAIN Rules :
             \E c \in DOMAIN Rules[r].Conditions :
                LET condition == Rules[r].Conditions[c]
                IN  /\ Rules[r].Table = sink[i].table
                    /\ condition.Device = sink[i].device
                    /\ condition.Threshold = sink[i].message.threshold
                    /\ DesignCompare(sink[i].message.current,
                                     condition.Operator, condition.Threshold)

\* C13: in scenario S1 the delivery of ("s/d1", {address d1, value 15})
\* leads to a sink insert, every sink insert carries current 15, threshold
\* 10 and severity WARNING for device d1 in the rule's table, and there is
\* never more than one.
C13_SimpleTrigger ==
    /\ [](/\ Len(sink) <= 1
          /\ \A i \in DOMAIN sink :
                /\ sink[i].table = RuleA.Table
                /\ sink[i].device = "d1"
                /\ sink[i].message.current = 15
                /\ sink[i].message.threshold = 10
                /\ sink[i].message.severity = "WARNING")
    /\ (<<T1, "d1">> \in DOMAIN deviceCache) ~> (Len(sink) = 1)

\* The insert was made and the worker is back in its select, a second
\* delivery of the reading pending.
C13_Witness ==
    /\ Len(sink) = 1
    /\ workers[<<0, 1>>].pc = "select"
    /\ chans[<<0, 1>>] = 1
    /\ now = MaxTime

\* Whether an atom holds on a converted snapshot: it has three words, its
\* device is in the snapshot, its right-hand side is a literal or a device
\* of the snapshot, and the comparison its operator stands for holds.
DesignAtomHolds(atom, values) ==
    /\ Len(atom) = 3
    /\ \E device \in DOMAIN values :
          /\ Chars[device] = atom[1]
          /\ \/ /\ \A i \in 1..Len(atom[3]) : atom[3][i] \in DOMAIN Digits
                 /\ DesignCompare(values[device], atom[2], Decimal(atom[3]))
             \/ \E other \in DOMAIN values :
                   /\ Chars[other] = atom[3]
                   /\ DesignCompare(values[device], atom[2], values[other])

DesignExpressionHolds(expr, values) ==
    IF expr.conn = AND
      THEN \A i \in DOMAIN expr.atoms : DesignAtomHolds(expr.atoms[i], values)
      ELSE \E i \in DOMAIN expr.atoms : DesignAtomHolds(expr.atoms[i], values)

\* C14: the compound form answers as its expression reads: atoms joined by
\* AND hold iff every atom holds, atoms joined by OR iff at least one does.
C14_CompoundTruth ==
    call.op = "evaluateComplexCondition"
      => call.ret = DesignExpressionHolds(call.expr, call.values)

\* C15: in scenario S2 the delivery of the reading D166 = 0 stores nothing,
\* signals no worker and makes no sink insert; no evaluation ever runs on a
\* snapshot in which D166 is 0, and every sink insert of the scenario was
\* made for the readings D800 = 850, D392 = 5, D166 = 5.
C15_ZeroReadingNoTrigger ==
    /\ [][(Delivered /\ lastMsg'.payload = Reading("D166", [f |-> 0]))
            => /\ deviceCache' = deviceCache
               /\ chans' = chans
               /\ sink' = sink]_vars
    /\ [](\A id \in DOMAIN workers :
             workers[id].pc \in Evaluating
               => workers[id].snapshot =
                     [D800 |-> [f |-> 850], D392 |-> [f |-> 5],
                      D166 |-> [f |-> 5]])
    /\ [](\A i \in DOMAIN sink : sink[i].message.current = 850)

\* The rule has triggered, the zero reading was delivered after that, and
\* the worker waits in its select with no token pending.
C15_Witness ==
    /\ Len(sink) = 1
    /\ lastMsg # None
    /\ lastMsg.payload = Reading("D166", [f |-> 0])
    /\ lastMsg.at >= sink[1].at
    /\ workers[<<0, 1>>].pc = "select"
    /\ chans[<<0, 1>>] = 0

\* The number a value of a numeric type holds, whatever the type.
DesignNumericTags == {"f", "f32", "i", "i32", "i64", "u", "u8"}

DesignIsNumeric(value) == DOMAIN value \subseteq DesignNumericTags

DesignNumberOf(value) == value[CHOOSE tag \in DOMAIN value : TRUE]

Terminated(id) == id \in DOMAIN workers /\ workers[id].pc = "done"

\* C17: every worker of a previous rule set eventually terminates, whatever
\* it was doing when UpdateRules ran.
C17_OldWorkersTerminate ==
    \A id \in WorkerIds :
        []((id \in DOMAIN workers /\ id[1] < ctx)
              => <>Terminated(id))

\* C18: once UpdateRules has returned, no worker of a previous rule set is
\* evaluating (its evaluation, the sink insert and the marking included).
C18_StopTheWorld ==
    \A id \in DOMAIN workers :
        id[1] < ctx => workers[id].pc \notin Evaluating

\* C19: the keys of ruleChans are the ids of Rules and, for every active
\* rule id, exactly one worker that has not terminated runs a rule of that
\* id, and it is the worker of the channel registered for the id.
C19_OneWorkerPerRule ==
    /\ DOMAIN ruleChans = {Rules[i].ID : i \in DOMAIN Rules}
    /\ \A i \in DOMAIN Rules :
          {id \in DOMAIN workers :
              /\ workers[id].pc # "done"
              /\ workers[id].rule.ID = Rules[i].ID} = {ruleChans[Rules[i].ID]}

\* C20: after Shutdown no worker begins another evaluation, and every
\* worker eventually terminates.
C20_ShutdownStopsWorkers ==
    /\ [][(ctx \in ctxDone)
            => (\A id \in DOMAIN workers :
                   ~(workers[id].pc = "select"
                       /\ workers'[id].pc = "snapshot"))]_vars
    /\ \A id \in WorkerIds :
          []((id \in DOMAIN workers /\ ctx \in ctxDone)
                => <>Terminated(id))

\* The cooldown the bootstrap gives a rule of the given maximum severity.
DesignDefaultCooldown(level) ==
    CASE level = LevelCritical -> 30
      [] level = LevelError -> 60
      [] OTHER -> 300

\* C21: no active rule has a zero CooldownPeriod: a rule has the cooldown it
\* came with (30 s here) or, when it came with none, the default of its
\* maximum severity; the same holds of the rule each worker of the active
\* set evaluates.
C21_DefaultCooldown ==
    /\ \A i \in DOMAIN Rules :
          /\ Rules[i].CooldownPeriod # 0
          /\ Rules[i].CooldownPeriod
                \in {30, DesignDefaultCooldown(getMaxLevel(Rules[i]))}
    /\ \A id \in DOMAIN workers :
          id[1] = ctx => workers[id].rule.CooldownPeriod # 0

\* The workers that have called the sink for the key and not yet marked it.
DesignMarking(key) ==
    {id \in DOMAIN workers :
        workers[id].pc = "mark" /\ KeyOf(workers[id]) = key}

\* C22: every sink call, failed or not, is made once and is followed by the
\* marking of its alert key: for each key, the calls made are as many as
\* the marks counted plus the workers between their call and their mark,
\* and once no worker is in between, the key's last alert time is not
\* before any of its calls.
C22_FailedInsertStillMarks ==
    \A i \in DOMAIN sink :
        LET key == sink[i].key
        IN  /\ Cardinality({j \in DOMAIN sink : sink[j].key = key})
                  = CountOf(alertCounts, key) + Cardinality(DesignMarking(key))
            /\ DesignMarking(key) = {}
                  => /\ key \in DOMAIN lastAlertTimes
                     /\ lastAlertTimes[key] >= sink[i].at

\* An insert has failed and its key has been marked.
C22_Witness ==
    \E i \in DOMAIN sink :
        /\ sink[i].err
        /\ DesignMarking(sink[i].key) = {}
        /\ CountOf(alertCounts, sink[i].key) = 1
        /\ lastAlertTimes[sink[i].key] >= sink[i].at

\* C23: a signal channel never holds more than one token, and the handler
\* can always run to its end, whatever the workers are doing: a message on
\* a topic whose channel already holds a token leaves the token as it is.
C23_SignalCoalescing ==
    /\ \A c \in DOMAIN chans : chans[c] \in {0, 1}
    /\ \A topic \in Topics :
          ENABLED OnMessage(topic,
                    Reading(extractAddressFromTopic(topic), [f |-> 15]))

\* While the worker evaluates a snapshot with d1 = 15, a later reading of 5
\* has been accepted on its topic and its token waits on the channel.
C23_Witness ==
    \E id \in DOMAIN workers :
        /\ workers[id].pc \in Evaluating
        /\ workers[id].snapshot.d1 = [f |-> 15]
        /\ chans[id] = 1
        /\ lastMsg # None
        /\ lastMsg.topic = T1
        /\ lastMsg.payload = Reading("d1", [f |-> 5])

\* C24: with RuleA active and never swapped out or shut down, every message
\* accepted on its topic leaves a token on the worker's channel, whether
\* the send went through or was dropped; a token leads to the worker
\* standing before createRuleSnapshot, and the worker then builds its
\* snapshot from the cache as it is at that moment and evaluates it.
C24_NoLostWakeUp ==
    /\ [][\A payload \in Payloads :
            (DesignAccepted(T1, payload) /\ HandleMQTTMessage(T1, payload))
              => chans'[<<0, 1>>] = 1]_vars
    /\ (chans[<<0, 1>>] = 1) ~> (workers[<<0, 1>>].pc = "snapshot")
    /\ (workers[<<0, 1>>].pc = "snapshot")
          ~> (workers[<<0, 1>>].pc = "evaluate")
    /\ [][(workers[<<0, 1>>].pc = "snapshot"
             /\ workers'[<<0, 1>>].pc # "snapshot")
            => /\ workers'[<<0, 1>>].pc = "evaluate"
               /\ workers'[<<0, 1>>].snapshot
                    = [d1 |-> deviceCache[<<T1, "d1">>].value]]_vars

\* A message was accepted after the worker took its token and before it
\* built its snapshot: the token of that message waits on the channel.
C24_Witness ==
    /\ workers[<<0, 1>>].pc = "snapshot"
    /\ chans[<<0, 1>>] = 1
    /\ <<T1, "d1">> \in DOMAIN deviceCache

\* C25: a rule's LastAlertTime changes only when Evaluate returns triggered,
\* and then records the time of that call for the condition's id; Evaluate
\* returns triggered for condition id c only if c has no earlier trigger
\* on the rule or the rule's CooldownPeriod has passed since the last one.
C25_RuleLocalCooldown ==
    [][\A id \in DOMAIN workers :
          LET w == workers[id]
              c == w.rule.Conditions[w.ci].ID
              returned == w.pc = "evaluate" /\ workers'[id].pc # "evaluate"
              triggered == returned /\ workers'[id].pc = "should"
          IN  /\ workers'[id].lat # w.lat => triggered
              /\ triggered
                   => /\ \/ c \notin DOMAIN w.lat
                         \/ now - w.lat[c] >= w.rule.CooldownPeriod
                      /\ workers'[id].lat = (c :> now) @@ w.lat]_vars

\* Condition 1 of RuleD triggered a second time, a full cooldown after the
\* first.
C25_Witness ==
    \E id \in DOMAIN workers :
        /\ workers[id].pc = "should"
        /\ workers[id].ci = 1
        /\ workers[id].lat[1] = now
        /\ now >= 30
        /\ \E i \in DOMAIN sink : sink[i].at < now

\* A JSON value that can be read as a number: a number, or a string that
\* spells one.
DesignCoercible(value) ==
    \/ DOMAIN value \subseteq {"f", "f32", "i", "i32", "i64"}
    \/ value \in [s : {"0", "0.0", "12", "15"}]

\* C26: a worker goes on to the limiter and the sink only with a snapshot
\* whose values are all coercible; when it evaluates a condition on a
\* snapshot holding a value that is not, the verdict is "not triggered":
\* the worker moves on past the condition, and the rule's LastAlertTime, the
\* limiter and the sink stay as they were.
C26_ConversionError ==
    /\ [](\A id \in DOMAIN workers :
             workers[id].pc \in {"should", "insert", "mark"}
               => \A k \in DOMAIN workers[id].snapshot :
                     DesignCoercible(workers[id].snapshot[k]))
    /\ [][\A id \in DOMAIN workers :
            (/\ workers[id].pc = "evaluate"
             /\ \E k \in DOMAIN workers[id].snapshot :
                   ~DesignCoercible(workers[id].snapshot[k])
             /\ workers'[id] # workers[id])
              => /\ workers'[id] = Advance(workers[id])
                 /\ workers'[id].lat = workers[id].lat
                 /\ lastAlertTimes' = lastAlertTimes
                 /\ alertCounts' = alertCounts
                 /\ sink' = sink]_vars

\* The worker has evaluated a snapshot in which d1 = 15 meets the condition
\* and d2 is a non-numeric string: nothing was triggered.
C26_Witness ==
    \E id \in DOMAIN workers :
        /\ workers[id].pc = "loop"
        /\ deviceCache = (<<T1, "d1">> :> [value |-> [f |-> 15], timestamp |-> 0])
                          @@ (<<T2, "d2">> :> [value |-> [s |-> "abc"],
                                               timestamp |-> 0])
        /\ chans[id] = 0
        /\ workers[id].lat = <<>>
        /\ sink = <<>>

\* C27: createRuleSnapshot returns nothing whenever some topic of the rule
\* has a missing, stale or invalid entry; what it returns otherwise is
\* nothing or a map whose keys are the device addresses of all the rule's
\* topics, as many as the topics, each with the cached value of its topic.
C27_NoPartialSnapshot ==
    call.op = "createRuleSnapshot" =>
        LET topics == call.rule.Topics
            ret == call.ret
        IN  /\ (\E i \in DOMAIN topics : ~DesignFresh(topics[i])) => ret.isnil
            /\ ~ret.isnil
                 => /\ DOMAIN ret.vals
                         = {DesignLastSegment(topics[i]) : i \in DOMAIN topics}
                    /\ Cardinality(DOMAIN ret.vals) = Len(topics)
                    /\ \A i \in DOMAIN topics :
                          ret.vals[DesignLastSegment(topics[i])]
                            = deviceCache[<<topics[i],
                                 DesignLastSegment(topics[i])>>].value

\* The call on the two-topic rule returned a map with both addresses, one
\* of the entries being exactly cacheTTL old.
C27_Witness ==
    /\ call.op = "createRuleSnapshot"
    /\ call.rule = RuleC
    /\ call.ret = [isnil |-> FALSE,
                   vals |-> [d1 |-> [i |-> 10], d2 |-> [i |-> 20]]]

\* C28: while a worker is between the RLock and the RUnlock of
\* createRuleSnapshot the cache does not change, so the snapshot it leaves
\* with holds, for every topic of the rule, the value the cache holds at
\* that one moment.
C28_SnapshotAtomic ==
    /\ [][(\E w \in LockWorkers : tasks[w].pc \in {"read", "RUnlock"})
            => deviceCache' = deviceCache]_vars
    /\ [](\A w \in LockWorkers :
             (tasks[w].pc = "RUnlock" /\ ~tasks[w].snapshot.isnil)
               => \A i \in DOMAIN RuleC.Topics :
                     tasks[w].snapshot.vals[DesignLastSegment(RuleC.Topics[i])]
                       = deviceCache[<<RuleC.Topics[i],
                            DesignLastSegment(RuleC.Topics[i])>>].value)

\* A worker has read d1 = 15 and not yet d2, while the callback waits for
\* the lock with a reading d1 = 20.
C28_Witness ==
    /\ tasks["w1"].pc = "read"
    /\ tasks["w1"].ti = 2
    /\ tasks["w1"].snapshot.vals = [d1 |-> [f |-> 15]]
    /\ tasks["ingress"] = [pc |-> "Lock", topic |-> T1, value |-> [f |-> 20]]

\* The place of a lock in the order manager/cache, limiter, rule.
DesignRank(lock) ==
    CASE lock = "mu" -> 1
      [] lock = "alertMu" -> 2
      [] lock = "ruleMu" -> 3

\* C29: every sink call is made by a task that holds no lock; a task that
\* takes a lock holds only locks that come before it in the order; a task
\* that waits for a lock holds none, so the holder of a lock is never
\* itself waiting and can go on to release it; and whenever some task waits
\* for a lock, some task inside a call can take a step.
C29_LockDiscipline ==
    /\ [](\A w \in LockWorkers : tasks[w].pc = "insert" => Holds(w) = {})
    /\ [](\A i \in DOMAIN sink : sink[i].holds = {})
    /\ [][\A t \in DOMAIN tasks :
            \A lock \in Holds(t)' \ Holds(t) :
               \A held \in Holds(t) : DesignRank(held) < DesignRank(lock)]_vars
    /\ [](\A t \in DOMAIN tasks :
             tasks[t].pc \in LockWaiting => Holds(t) = {})
    /\ []((\E t \in DOMAIN tasks : tasks[t].pc \in LockWaiting)
            => ENABLED LockProgress)

\* The worker calls the sink while the callback holds the manager lock and
\* the other worker is inside the limiter.
C29_Witness ==
    /\ tasks["w1"].pc = "insert"
    /\ locks.mu = {<<"ingress", "w">>}
    /\ locks.alertMu = {"w2"}

\* The longest silence the backoff policy allows for RuleB's key: the capped
\* cooldown, the rule's CooldownPeriod and one message interval.
DesignSilenceBound ==
    8 * getBaseCooldown(LevelCritical) + RuleB.CooldownPeriod + MessageInterval

\* C30: under sustained firing the inserts for the rule's key keep recurring.
\* The first insert follows the first accepted message; at every moment the
\* latest insert for the key is no older than the capped cooldown plus the
\* rule's CooldownPeriod and one message interval; and from every instant of
\* the clock (up to the horizon less that bound) a later insert follows
\* within the bound.
C30_BoundedSilence ==
    /\ [](sink = <<>> => now <= MessageInterval)
    /\ [](\A i \in DOMAIN sink :
             /\ sink[i].key = AlertKey(RuleB.ID, LevelCritical)
             /\ now - sink[i].at <= DesignSilenceBound)
    /\ [][\A i \in DOMAIN sink : \A j \in DOMAIN sink' :
             sink'[j].at - sink[i].at <= DesignSilenceBound]_vars
    /\ \A t \in {k * SilenceStep :
                   k \in 0 .. ((SilenceHorizon - DesignSilenceBound)
                                \div SilenceStep)} :
          (now = t) ~> (\E i \in DOMAIN sink :
                           /\ sink[i].at > t
                           /\ sink[i].at <= t + DesignSilenceBound)

\* The key has fired twice in a row, so its count is 2 and its cooldown
\* four times the base; that cooldown has passed and the next insert is made.
C30_Witness ==
    /\ CountOf(alertCounts, AlertKey(RuleB.ID, LevelCritical)) = 2
    /\ \E id \in DOMAIN workers :
          /\ workers[id].pc = "mark"
          /\ \E i \in DOMAIN sink : sink[i].at = now
    /\ now - lastAlertTimes[AlertKey(RuleB.ID, LevelCritical)]
          > 4 * getBaseCooldown(LevelCritical)

\* C31: with one worker on the key, a recorded count is 1 or 2, and so the
\* cooldown that applies once the key is marked is twice or four times the
\* base: a check passes only after more than the current cooldown, and a
\* mark that follows a pause of more than four times the base starts the
\* count again.
C31_CountOneOrTwo ==
    LET key == AlertKey(RuleB.ID, LevelCritical)
        base == getBaseCooldown(LevelCritical)
    IN  /\ DOMAIN alertCounts \subseteq {key}
        /\ DOMAIN alertCounts = DOMAIN lastAlertTimes
        /\ key \in DOMAIN alertCounts
              => /\ alertCounts[key] \in {1, 2}
                 /\ getCooldown(key, LevelCritical) \in {2 * base, 4 * base}

\* The count stands at 2 and more than four times the base has passed since
\* the key was marked: the worker has passed the limiter and made its
\* insert, and the mark it is about to make starts the count again.
C31_Witness ==
    LET key == AlertKey(RuleB.ID, LevelCritical)
    IN  /\ key \in DOMAIN alertCounts
        /\ alertCounts[key] = 2
        /\ now - lastAlertTimes[key] > 4 * getBaseCooldown(LevelCritical)
        /\ \E id \in DOMAIN workers : workers[id].pc = "mark"

\* C32: check-then-mark is atomic per alert key.  While a worker stands
\* between a shouldTriggerAlert that returned true and the markAlertTriggered
\* of the same evaluation, no other worker stands there for the same key.
C32_CheckThenMarkAtomic ==
    \A id1 \in DOMAIN workers, id2 \in DOMAIN workers :
        /\ workers[id1].pc \in {"insert", "mark"}
        /\ workers[id2].pc \in {"insert", "mark"}
        /\ KeyOf(workers[id1]) = KeyOf(workers[id2])
        => id1 = id2

C34_ParentCancelStopsWorkers ==
    \A id \in WorkerIds :
        []((id \in DOMAIN workers /\ -1 \in ctxDone) => <>Terminated(id))

\* C35: in one evaluation pass of a rule at most one sink insert is made per
\* severity level.  All three conditions of RuleE trigger; the two critical
\* ones share the key 6_3, and once the key is marked the limiter refuses
\* every later condition that asks about it in the pass, however long the
\* insert before took.
C35_OneInsertPerLevel ==
    /\ [](\A i \in DOMAIN sink : \A j \in DOMAIN sink :
             (sink[i].key = sink[j].key \/ sink[i].key[2] = sink[j].key[2])
               => i = j)
    /\ [][\A id \in DOMAIN workers :
            (/\ workers[id].pc = "should"
             /\ workers'[id].pc # "should"
             /\ KeyOf(workers[id]) \in DOMAIN lastAlertTimes)
            => workers'[id].pc # "insert"]_vars

\* The first critical condition has inserted and marked key 6_3; the second
\* has triggered too and the worker asks the limiter about the same key.
C35_Witness ==
    /\ workers[<<0, 1>>].pc = "should"
    /\ workers[<<0, 1>>].ci = 2
    /\ AlertKey(RuleE.ID, LevelCritical) \in DOMAIN lastAlertTimes
    /\ Len(sink) = 1
    /\ sink[1].key = AlertKey(RuleE.ID, LevelCritical)
    /\ now >= 60

\* C36: a rule that lists two topics with the same last segment, or one
\* topic twice, gets no snapshot from createRuleSnapshot, whatever the cache
\* holds.
C36_SharedAddressNoSnapshot ==
    (/\ call.op = "createRuleSnapshot"
     /\ \E i \in DOMAIN call.rule.Topics : \E j \in DOMAIN call.rule.Topics :
           /\ i # j
           /\ DesignLastSegment(call.rule.Topics[i])
                 = DesignLastSegment(call.rule.Topics[j]))
    => call.ret.isnil

\* The call on the rule with topics s/d1 and x/d1 returned nothing although
\* the cache holds a new, valid entry for each of the two topics.
C36_Witness ==
    /\ call.op = "createRuleSnapshot"
    /\ call.rule = RuleSameAddress
    /\ call.ret.isnil
    /\ \A key \in {<<T1, "d1">>, <<T1x, "d1">>} :
          /\ key \in DOMAIN deviceCache
          /\ deviceCache[key] = [value |-> [i |-> 10], timestamp |-> now]

\* C37: a reading that fails the validity filter leaves the cache entry of
\* its key as it was.  Handling the reading 0 for d1 changes neither the
\* cache nor the snapshot RuleC (topics s/d1 and s/d2) would get; the
\* snapshot the worker builds afterwards holds the values of the cache, the
\* earlier reading of d1 included, as long as both entries are usable; and
\* Evaluate triggers on it when the rule's cooldown allows.
C37_RejectedKeepsEntry ==
    /\ [][(Delivered /\ lastMsg'.payload = Reading("d1", [f |-> 0]))
            => /\ deviceCache' = deviceCache
               /\ createRuleSnapshot(RuleC)' = createRuleSnapshot(RuleC)]_vars
    /\ [][\A id \in DOMAIN workers :
            LET w == workers[id]
            IN  (/\ lastMsg # None
                 /\ lastMsg.topic = T1
                 /\ lastMsg.payload = Reading("d1", [f |-> 0])
                 /\ w.rule.Topics = <<T1, T2>>
                 /\ workers'[id] # w)
                => /\ (/\ w.pc = "snapshot"
                       /\ EntryUsable(<<T1, "d1">>)
                       /\ EntryUsable(<<T2, "d2">>))
                      => /\ workers'[id].pc = "evaluate"
                         /\ workers'[id].snapshot
                              = [d1 |-> deviceCache[<<T1, "d1">>].value,
                                 d2 |-> deviceCache[<<T2, "d2">>].value]
                   /\ (/\ w.pc = "evaluate"
                       /\ w.snapshot.d1 = [f |-> 15]
                       /\ w.lat = <<>>)
                      => workers'[id].pc = "should"]_vars

\* The reading 15 of d1 is in the cache; a reading on s/d2 has left a token
\* that RuleC's worker has taken; the reading 0 of d1 was handled last, and
\* the snapshot the worker is about to build holds 15 for d1.
C37_Witness ==
    /\ lastMsg # None
    /\ lastMsg.topic = T1
    /\ lastMsg.payload = Reading("d1", [f |-> 0])
    /\ <<T1, "d1">> \in DOMAIN deviceCache
    /\ deviceCache[<<T1, "d1">>].timestamp < lastMsg.at
    /\ <<T2, "d2">> \in DOMAIN deviceCache
    /\ deviceCache[<<T2, "d2">>].timestamp = lastMsg.at
    /\ workers[<<0, 1>>].pc = "snapshot"
    /\ workers[<<0, 1>>].rule.Topics = <<T1, T2>>
    /\ createRuleSnapshot(workers[<<0, 1>>].rule)
          = [isnil |-> FALSE, vals |-> [d1 |-> [f |-> 15], d2 |-> [f |-> 15]]]

\* C38: Evaluate records the time of the call under the condition's id in
\* exactly the calls that return triggered, and leaves LastAlertTime alone
\* in the others; the limiter's answer afterwards does not touch the
\* record.  So a trigger the limiter suppressed restarts the rule's own
\* cooldown: until CooldownPeriod has passed since it, Evaluate returns
\* false for the condition.
C38_SuppressedAlertRestartsCooldown ==
    [][\A id \in DOMAIN workers :
          LET w == workers[id]
              c == w.rule.Conditions[w.ci].ID
          IN  /\ (w.pc = "evaluate" /\ workers'[id].pc # "evaluate")
                   => /\ workers'[id].lat
                           = IF workers'[id].pc = "should"
                               THEN (c :> now) @@ w.lat
                               ELSE w.lat
                      /\ (/\ c \in DOMAIN w.lat
                          /\ now - w.lat[c] < w.rule.CooldownPeriod)
                         => workers'[id].pc # "should"
              /\ (w.pc = "should" /\ workers'[id].pc # "should")
                   => workers'[id].lat = w.lat]_vars

\* The limiter would let key 2_3 through (its cooldown has passed), but the
\* condition triggered and was suppressed less than CooldownPeriod ago, after
\* the key was last marked: the call of Evaluate about to be made returns
\* false.
C38_Witness ==
    LET w == workers[<<0, 1>>]
        key == AlertKey(RuleB.ID, LevelCritical)
    IN  /\ w.pc = "evaluate"
        /\ w.ci = 1
        /\ 1 \in DOMAIN w.lat
        /\ key \in DOMAIN lastAlertTimes
        /\ lastAlertTimes[key] < w.lat[1]
        /\ now - w.lat[1] < RuleB.CooldownPeriod
        /\ now - lastAlertTimes[key] > getCooldown(key, LevelCritical)

=============================================================================
